---- MODULE Spec2Model ----
(***************************************************************************)
(* State-machine model of v8js_class.cc: the V8Js Context object (its      *)
(* construction, teardown and script resources), the script execution      *)
(* protocol, and the limit setters that update the watchdog registry.      *)
(***************************************************************************)
EXTENDS Integers, Sequences, FiniteSets, TLC

VARIABLES
    ctx,                \* per Context: the fields of v8js_ctx
    script,             \* per script resource: the fields of v8js_script
    engines,            \* per engine instance: how often Dispose() was called on it
    timer_stack,        \* V8JSG(timer_stack): the watchdog registry
    timer_thread,       \* number of watchdog threads started (V8JSG(timer_thread))
    fatal_error_abort,  \* V8JSG(fatal_error_abort)
    now,                \* the monotonic clock
    frames,             \* the host thread's stack of executions in progress
    mutex,              \* owner of V8JSG(timer_mutex), or "free"
    pc,                 \* the host thread's position inside a limit setter
    threads,            \* concurrent host threads: what each is doing
    terminate_at,       \* per Context: when the watchdog asked its engine to
                        \* terminate the running script, or NULL
    last                \* the operation that made the last step, and its outcome

vars == <<ctx, script, engines, timer_stack, timer_thread, fatal_error_abort,
          now, frames, mutex, pc, threads, terminate_at, last>>

(***************************************************************************)
(* Bounds and input sets                                                   *)
(***************************************************************************)
Ctx == {"c1", "c2"}
NULL == "NULL"

MaxEngines == 2     \* engine instances created in one run
MaxScripts == 2     \* script resources compiled in one run
MaxEntries == 1     \* entries the bridge adds to each handle cache
NumMethods == 1     \* exportable public methods of the host object's class

MaxDefault == 1     \* the limit passed to setTimeLimit / setMemoryLimit
MaxDepth == 2       \* executions nested in one another
MaxTime == 2        \* clock ticks in one run

Engines == 1..MaxEngines
Scripts == 1..MaxScripts

\* Limits passed to the setters: none, or a limit.
DefaultLimits == {0, MaxDefault}
\* Limits passed to an execute call: none, or one no setter ever stores.
ExplicitLimits == {0, MaxDefault + 1}
\* A memory limit that setMemoryLimit and the execute calls reject.
NegativeLimits == {-1}
Threads == {"t1", "t2"}
Flags == {"NONE", "PROPAGATE_PHP_EXCEPTIONS"}

MaxValue == 2       \* values the host writes to a property

\* Property names the host uses on the Context object, and what
\* zend_get_property_info finds for each in the calling scope: a declared
\* public property, a declared non-public one, ZEND_WRONG_PROPERTY_INFO for
\* one the scope may not access, or nothing for an undeclared name.  "huge"
\* is an undeclared name longer than INT_MAX.
PropNames == {"pub", "prot", "priv", "dyn", "huge"}
PropKind ==
    [ pub |-> "public", prot |-> "nonpublic", priv |-> "wrong",
      dyn |-> "undeclared", huge |-> "undeclared" ]
Values == 1..MaxValue

\* A slot of a property table: empty, holding a value on the host object, or
\* holding a value on the exported object, where DefineOwnProperty(...,
\* v8::ReadOnly) leaves it read-only for the guest.
NoProperty == [present |-> FALSE, value |-> 0, read_only |-> FALSE]
HostProperty(v) == [present |-> TRUE, value |-> v, read_only |-> FALSE]
GuestProperty(v) == [present |-> TRUE, value |-> v, read_only |-> TRUE]

\* Places where __construct can stop early, by the input that triggers it.
FailPoints == {"none", "snapshot", "context", "classname", "objname",
               "propname", "methname"}

\* Arguments of __construct: exported-object name ("" when not passed),
\* number of initial variables, whether a snapshot blob is passed.
ConstructArgs ==
    { [object_name |-> "",    vars |-> 0, blob |-> FALSE],
      [object_name |-> "App", vars |-> 1, blob |-> TRUE] }

(***************************************************************************)
(* v8js_new: the Context as allocated, before __construct                  *)
(***************************************************************************)
NewCtx ==
    [ context           |-> FALSE,  \* c->context non-empty
      isolate           |-> 0,      \* c->isolate, 0 is NULL
      object_name       |-> "",     \* c->object_name, "" is the empty handle
      exported          |-> FALSE,  \* exported object installed on the guest global
      global_template   |-> FALSE,
      accessor_list     |-> 0,
      method_tmpls      |-> 0,
      call_impls        |-> 0,
      template_cache    |-> 0,
      weak_objects      |-> 0,
      weak_closures     |-> 0,
      modules_loaded    |-> 0,
      script_objects    |-> <<>>,
      time_limit        |-> 0,
      memory_limit      |-> 0,
      in_execution      |-> 0,
      zval_snapshot_blob|-> FALSE,
      \* the host object's property table: declared properties hold their
      \* default, undeclared names are absent
      props             |-> [n \in PropNames |->
                               IF PropKind[n] = "undeclared" THEN NoProperty
                               ELSE HostProperty(0)],
      \* the properties of the exported object on the guest side
      js_props          |-> [n \in PropNames |-> NoProperty],
      flog              |-> <<>>,   \* release steps of v8js_free_storage done so far
      disposals         |-> 0,      \* Dispose() calls made by v8js_free_storage
      ctor_called       |-> FALSE,  \* __construct has been called on the object
      serialize_called  |-> FALSE ] \* __sleep or __wakeup has been called on it

\* A v8js_script: state is "none" before it is allocated, "live" while the
\* resource exists and "freed" after v8js_script_dtor; ctx is res->ctx, handle
\* says whether *res->script holds a compiled script, origin remembers the
\* Context it was compiled on.
\* No concurrent host thread is inside a call.
IdleThread == [at |-> "idle", running |-> NULL]
NoThreads == [t \in Threads |-> IdleThread]

NoScript == [state |-> "none", ctx |-> NULL, handle |-> FALSE, origin |-> NULL]

Init ==
    /\ ctx = [c \in Ctx |-> NewCtx]
    /\ script = [r \in Scripts |-> NoScript]
    /\ engines = <<>>
    /\ timer_stack = <<>>
    /\ timer_thread = 0
    /\ fatal_error_abort = FALSE
    /\ now = 0
    /\ frames = <<>>
    /\ mutex = "free"
    /\ pc = <<>>
    /\ threads = NoThreads
    /\ terminate_at = [c \in Ctx |-> NULL]
    /\ last = [op |-> "init"]

(***************************************************************************)
(* v8js_free_storage                                                       *)
(***************************************************************************)
\* A teardown that disposes the engine instance before the weak references.
FreeOrderDisposeEarly ==
    << "detach", "object_name", "global_template", "call_impls", "method_tmpls",
       "template_cache", "accessor_list", "context", "isolate", "weak_objects",
       "weak_closures", "script_objects", "modules_loaded", "snapshot_blob" >>

\* A teardown that disposes the script scope after the module cache.
FreeOrderScopeLate ==
    << "detach", "object_name", "global_template", "call_impls", "method_tmpls",
       "template_cache", "accessor_list", "weak_objects", "weak_closures",
       "script_objects", "modules_loaded", "context", "isolate", "snapshot_blob" >>

\* The release steps in the order of the code.
FreeOrder ==
    << "detach", "object_name", "global_template", "call_impls", "method_tmpls",
       "template_cache", "accessor_list", "context", "weak_objects",
       "weak_closures", "script_objects", "modules_loaded", "isolate",
       "snapshot_blob" >>

Untouched(c) == ctx[c].flog = <<>>
Freed(c) == Len(ctx[c].flog) = Len(FreeOrder)
\* The host thread can make a call: no v8js_free_storage is part-way, it is
\* not inside setTimeLimit or setMemoryLimit, and it is not unwinding from a
\* bailout raised inside a host callback.
HostIdle ==
    /\ \A c \in Ctx : Untouched(c) \/ Freed(c)
    /\ pc = <<>>
    /\ frames # <<>> => ~frames[Len(frames)].aborted

\* What a release step finds to release: the guest references it drops.
Held(k, s) ==
    CASE s = "detach"          -> IF k.context /\ k.exported THEN 1 ELSE 0
      [] s = "object_name"     -> IF k.object_name # "" THEN 1 ELSE 0
      [] s = "global_template" -> IF k.global_template THEN 1 ELSE 0
      [] s = "call_impls"      -> k.call_impls
      [] s = "method_tmpls"    -> k.method_tmpls
      [] s = "template_cache"  -> k.template_cache
      [] s = "accessor_list"   -> k.accessor_list
      [] s = "context"         -> IF k.context THEN 1 ELSE 0
      [] s = "weak_objects"    -> k.weak_objects
      [] s = "weak_closures"   -> k.weak_closures
      [] s = "script_objects"  -> Len(k.script_objects)
      [] s = "modules_loaded"  -> k.modules_loaded
      [] s = "isolate"         -> IF k.isolate # 0 THEN 1 ELSE 0
      [] s = "snapshot_blob"   -> IF k.zval_snapshot_blob THEN 1 ELSE 0

\* The effect of one release step on the Context's fields.
ReleaseStep(k, s) ==
    CASE s = "detach"          -> IF k.context THEN [k EXCEPT !.exported = FALSE] ELSE k
      [] s = "object_name"     -> [k EXCEPT !.object_name = ""]
      [] s = "global_template" -> [k EXCEPT !.global_template = FALSE]
      [] s = "call_impls"      -> [k EXCEPT !.call_impls = 0]
      [] s = "method_tmpls"    -> [k EXCEPT !.method_tmpls = 0]
      [] s = "template_cache"  -> [k EXCEPT !.template_cache = 0]
      [] s = "accessor_list"   -> [k EXCEPT !.accessor_list = 0]
      [] s = "context"         -> [k EXCEPT !.context = FALSE]
      [] s = "weak_objects"    -> [k EXCEPT !.weak_objects = 0]
      [] s = "weak_closures"   -> [k EXCEPT !.weak_closures = 0]
      [] s = "script_objects"  -> [k EXCEPT !.script_objects = <<>>]
      [] s = "modules_loaded"  -> [k EXCEPT !.modules_loaded = 0]
      [] s = "isolate"         -> IF k.isolate # 0
                                  THEN [k EXCEPT !.disposals = @ + 1] ELSE k
      [] s = "snapshot_blob"   -> [k EXCEPT !.zval_snapshot_blob = FALSE]

\* A teardown that forgets the loop over the module cache.
ReleaseForgetsModules(k, s) ==
    IF s = "modules_loaded" THEN k ELSE ReleaseStep(k, s)

Release(k, s) == ReleaseStep(k, s)

InList(r, list) == \E i \in DOMAIN list : list[i] = r

\* A loop over the script list that resets the compiled scripts and leaves
\* the owner of each resource as it was.
ClearOwnersKeepsOwner(scr, list) ==
    [r \in Scripts |->
        IF InList(r, list) THEN [scr[r] EXCEPT !.handle = FALSE] ELSE scr[r]]

\* The loop over c->script_objects: (*it)->ctx = NULL; (*it)->script->Reset();
ClearOwners(scr, list) ==
    [r \in Scripts |->
        IF InList(r, list)
        THEN [scr[r] EXCEPT !.ctx = NULL, !.handle = FALSE]
        ELSE scr[r]]

\* One step of v8js_free_storage on Context c. The object is freed when no
\* host variable refers to it, so never while it executes a script.
FreeStep(c) ==
    /\ ~Freed(c)
    /\ \A d \in Ctx \ {c} : Untouched(d) \/ Freed(d)
    /\ ctx[c].in_execution = 0
    /\ frames = <<>>
    /\ LET k == ctx[c]
           s == FreeOrder[Len(k.flog) + 1]
       IN  /\ ctx' = [ctx EXCEPT ![c] = [Release(k, s) EXCEPT !.flog = Append(k.flog, [step |-> s, n |-> Held(k, s)])]]
           /\ script' = IF s = "script_objects"
                         THEN ClearOwners(script, k.script_objects)
                         ELSE script
           /\ engines' = IF s = "isolate" /\ k.isolate # 0
                          THEN [engines EXCEPT ![k.isolate] = @ + 1]
                          ELSE engines
           /\ last' = [op |-> "free", c |-> c, step |-> s]
    /\ UNCHANGED <<timer_stack, timer_thread, fatal_error_abort, now, frames, mutex, pc,
                   threads, terminate_at>>

(***************************************************************************)
(* PHP_METHOD(V8Js, __construct)                                           *)
(***************************************************************************)
\* A constructor without the check for a second call.
NeverAlreadyConstructed(k) == FALSE

\* "called __construct() twice, bail out"
AlreadyConstructed(k) == k.context

\* How far the body of __construct runs before it stops at fail point f.
Rank(f) ==
    CASE f = "snapshot"  -> 1
      [] f = "context"   -> 2
      [] f = "classname" -> 3
      [] f = "objname"   -> 4
      [] f = "propname"  -> 5
      [] f = "methname"  -> 6
      [] f = "none"      -> 7

\* The inputs that can make __construct stop at f: an oversized blob needs a
\* blob, an oversized exported-object name needs a name.
CanFail(a, f) ==
    /\ f = "snapshot" => a.blob
    /\ f = "objname" => a.object_name # ""

\* "Export public property values": the loop over the host object's
\* properties.
ExportProperties(k) ==
    [n \in PropNames |->
        IF k.props[n].present /\ PropKind[n] = "public"
        THEN GuestProperty(k.props[n].value)
        ELSE k.js_props[n]]

\* The Context's fields after the body of __construct ran on k with arguments
\* a, stopped at f, iso being the engine instance Isolate::New returns.
ConstructBody(k, a, f, iso) ==
    LET n == Rank(f) IN
    [ k EXCEPT
        !.ctor_called        = TRUE,
        !.in_execution       = 0,
        !.zval_snapshot_blob = k.zval_snapshot_blob \/ a.blob,
        !.isolate            = IF n > 1 THEN iso ELSE @,
        !.time_limit         = IF n > 1 THEN 0 ELSE @,
        !.memory_limit       = IF n > 1 THEN 0 ELSE @,
        !.global_template    = IF n > 1 THEN TRUE ELSE @,
        !.context            = IF n > 2 THEN TRUE ELSE @,
        !.accessor_list      = IF n > 3 THEN @ + a.vars ELSE @,
        !.object_name        = IF n > 4
                               THEN (IF a.object_name # "" THEN a.object_name ELSE "PHP")
                               ELSE @,
        !.exported           = IF n > 4 THEN TRUE ELSE @,
        !.js_props           = IF n > 5 THEN ExportProperties(k) ELSE @,
        !.method_tmpls       = IF n > 6 THEN NumMethods ELSE @ ]

Construct(c, a, f) ==
    /\ HostIdle /\ Untouched(c)
    /\ CanFail(a, f)
    /\ IF AlreadyConstructed(ctx[c])
       THEN /\ ctx' = [ctx EXCEPT ![c].ctor_called = TRUE]
            /\ engines' = engines
            /\ last' = [op |-> "construct", c |-> c, noop |-> TRUE, fail |-> "none"]
       ELSE /\ Rank(f) > 1 => Len(engines) < MaxEngines
            /\ ctx' = [ctx EXCEPT ![c] = ConstructBody(ctx[c], a, f, Len(engines) + 1)]
            /\ engines' = IF Rank(f) > 1 THEN Append(engines, 0) ELSE engines
            /\ last' = [op |-> "construct", c |-> c, noop |-> FALSE, fail |-> f]
    /\ UNCHANGED <<script, timer_stack, timer_thread, fatal_error_abort, now,
                   frames, mutex, pc, threads, terminate_at>>

(***************************************************************************)
(* The bridge (v8js_object_export, v8js_methods; not in this file): while  *)
(* a script runs, exporting host objects and closures and loading modules  *)
(* fills the Context's handle caches.                                      *)
(***************************************************************************)
BridgeFill(k) ==
    [ k EXCEPT !.call_impls     = MaxEntries,
               !.template_cache = MaxEntries,
               !.weak_objects   = MaxEntries,
               !.weak_closures  = MaxEntries,
               !.modules_loaded = MaxEntries ]

BridgeActivity(c) ==
    /\ HostIdle /\ Untouched(c)
    /\ ctx[c].context /\ ctx[c].weak_objects = 0
    /\ ctx' = [ctx EXCEPT ![c] = BridgeFill(ctx[c])]
    /\ last' = [op |-> "bridge", c |-> c]
    /\ UNCHANGED <<script, engines, timer_stack, timer_thread, fatal_error_abort,
                   now, frames, mutex, pc, threads, terminate_at>>

(***************************************************************************)
(* v8js_compile_script, PHP_METHOD(V8Js, compileString), v8js_script_dtor  *)
(***************************************************************************)
CompileOutcomes == {"ok", "identifier_too_long", "source_too_long", "compile_error"}

FreeScriptSlots == {r \in Scripts : script[r].state = "none"}
NewScriptId == CHOOSE r \in FreeScriptSlots : \A q \in FreeScriptSlots : r <= q

\* v8js_compile_script: the resource it returns, NoScript for *ret == NULL.
CompileScript(c, o) ==
    IF o = "ok"
    THEN [state |-> "live", ctx |-> c, handle |-> TRUE, origin |-> c]
    ELSE NoScript

\* Whether v8js_compile_script has taken the engine lock and entered the
\* script scope by the time it leaves with outcome o: V8JS_BEGIN_CTX is its
\* first statement, ahead of both length checks.
CompileEntersCtx(o) == o \in CompileOutcomes

CompileString(c, o) ==
    /\ HostIdle /\ Untouched(c)
    /\ ctx[c].context
    /\ FreeScriptSlots # {}
    /\ LET res == CompileScript(c, o)
           r == NewScriptId
       IN  IF res # NoScript
           THEN /\ script' = [script EXCEPT ![r] = res]
                /\ ctx' = [ctx EXCEPT ![c].script_objects = Append(@, r)]
                /\ last' = [op |-> "compileString", c |-> c, res |-> r,
                             outcome |-> o, entered |-> CompileEntersCtx(o)]
           ELSE /\ UNCHANGED <<script, ctx>>
                /\ last' = [op |-> "compileString", c |-> c, res |-> 0,
                             outcome |-> o, entered |-> CompileEntersCtx(o)]
    /\ UNCHANGED <<engines, timer_stack, timer_thread, fatal_error_abort, now,
                   frames, mutex, pc, threads, terminate_at>>

\* A destructor that leaves the list as it is.
EraseNothing(list, r) == list

\* An erase that drops the entry at the front of the list, whichever it is.
EraseFront(list, r) == Tail(list)

\* std::find followed by erase: the list without its first occurrence of r.
EraseFirst(list, r) ==
    LET i == CHOOSE j \in DOMAIN list :
                 list[j] = r /\ \A h \in 1..(j - 1) : list[h] # r
    IN  SubSeq(list, 1, i - 1) \o SubSeq(list, i + 1, Len(list))

ScriptDtor(r) ==
    /\ HostIdle
    /\ script[r].state = "live"
    /\ frames = <<>>
    /\ LET owner == script[r].ctx IN
       /\ owner # NULL => InList(r, ctx[owner].script_objects)
       /\ ctx' = IF owner # NULL
                  THEN [ctx EXCEPT ![owner].script_objects = EraseFirst(@, r)]
                  ELSE ctx
    /\ script' = [script EXCEPT ![r] = [@ EXCEPT !.state = "freed", !.handle = FALSE]]
    /\ last' = [op |-> "scriptDtor", res |-> r]
    /\ UNCHANGED <<engines, timer_stack, timer_thread, fatal_error_abort, now,
                   frames, mutex, pc, threads, terminate_at>>

(***************************************************************************)
(* PHP_METHOD(V8Js, setTimeLimit), PHP_METHOD(V8Js, setMemoryLimit)        *)
(***************************************************************************)
\* A loop that rewrites every entry of the Context, killed or not.
TimeLimitLoopRewritesKilled(stack, c, ms, t) ==
    [i \in DOMAIN stack |->
        IF stack[i].ctx = c
        THEN [stack[i] EXCEPT !.time_limit = ms, !.time_point = t + ms]
        ELSE stack[i]]

\* A loop that stores the new limit and leaves the deadline as it was.
TimeLimitLoopKeepsDeadline(stack, c, ms, t) ==
    [i \in DOMAIN stack |->
        IF stack[i].ctx = c /\ ~stack[i].killed
        THEN [stack[i] EXCEPT !.time_limit = ms]
        ELSE stack[i]]

\* The loop over V8JSG(timer_stack) in setTimeLimit, run at time t.
TimeLimitLoop(stack, c, ms, t) ==
    [i \in DOMAIN stack |->
        IF stack[i].ctx = c /\ ~stack[i].killed
        THEN [stack[i] EXCEPT !.time_limit = ms, !.time_point = t + ms]
        ELSE stack[i]]

\* The loop over V8JSG(timer_stack) in setMemoryLimit.
MemoryLimitLoop(stack, c, bytes) ==
    [i \in DOMAIN stack |->
        IF stack[i].ctx = c /\ ~stack[i].killed
        THEN [stack[i] EXCEPT !.memory_limit = bytes]
        ELSE stack[i]]

\* A check that lets every memory limit through.
NegativeLimitIgnored(limit) == FALSE

\* if (memory_limit < 0): "memory_limit must not be negative"
NegativeLimit(limit) == limit < 0

\* A start of the timer thread that does not ask whether the Context executes.
InstallsTimerWhenIdle(k, limit, started) ==
    limit # 0 /\ started = 0

\* "If timer thread is not started already and we now impose a limit"
InstallsTimer(k, limit, started) ==
    k.in_execution # 0 /\ limit # 0 /\ started = 0

SetTimeLimit(c, ms) ==
    /\ HostIdle /\ Untouched(c)
    /\ ctx' = [ctx EXCEPT ![c].time_limit = ms]
    /\ timer_stack' = TimeLimitLoop(timer_stack, c, ms, now)
    /\ timer_thread' = IF InstallsTimer(ctx[c], ms, timer_thread)
                       THEN timer_thread + 1 ELSE timer_thread
    /\ last' = [op |-> "setTimeLimit", c |-> c, arg |-> ms, at |-> now,
                started |-> timer_thread' # timer_thread]
    /\ UNCHANGED <<script, engines, fatal_error_abort, now, frames, mutex, pc,
                   threads, terminate_at>>

SetMemoryLimit(c, bytes) ==
    /\ HostIdle /\ Untouched(c)
    /\ IF NegativeLimit(bytes)
       THEN UNCHANGED <<ctx, timer_stack, timer_thread>>
       ELSE /\ ctx' = [ctx EXCEPT ![c].memory_limit = bytes]
            /\ timer_stack' = MemoryLimitLoop(timer_stack, c, bytes)
            /\ timer_thread' = IF InstallsTimer(ctx[c], bytes, timer_thread)
                               THEN timer_thread + 1 ELSE timer_thread
    /\ last' = [op |-> "setMemoryLimit", c |-> c, arg |-> bytes, at |-> now,
                started |-> timer_thread' # timer_thread]
    /\ UNCHANGED <<script, engines, fatal_error_abort, now, frames, mutex, pc,
                   threads, terminate_at>>

\* The lifecycle of one Context and of the script resources compiled on it,
\* under every argument and every early exit of __construct.
LifeCtx == {"c1"}

NextLife ==
    \/ \E c \in LifeCtx, a \in ConstructArgs, f \in FailPoints : Construct(c, a, f)
    \/ \E c \in LifeCtx : BridgeActivity(c)
    \/ \E c \in LifeCtx, o \in CompileOutcomes : CompileString(c, o)
    \/ \E r \in Scripts : ScriptDtor(r)
    \/ \E c \in LifeCtx, ms \in DefaultLimits : SetTimeLimit(c, ms)
    \/ \E c \in LifeCtx, bytes \in DefaultLimits : SetMemoryLimit(c, bytes)
    \/ \E c \in LifeCtx : FreeStep(c)

SpecLife == Init /\ [][NextLife]_vars

(***************************************************************************)
(* v8js_execute_script, executeScript, executeString                       *)
(***************************************************************************)
\* A check that only rejects resources whose owner is gone.
MismatchOnlyNull(res, c) == res.ctx = NULL

\* "Script resource from wrong V8Js object passed"
Mismatch(res, c) == res.ctx # c

\* A substitution of the defaults that forgets the in-execution flag.
EffectiveLimitAlways(in_execution, limit, default) ==
    IF limit = 0 THEN default ELSE limit

\* A call that never falls back on the defaults of the Context.
EffectiveLimitNever(in_execution, limit, default) == limit

\* if (!c->in_execution && limit == 0) limit = c->limit;
EffectiveLimit(in_execution, limit, default) ==
    IF in_execution = 0 /\ limit = 0 THEN default ELSE limit

\* A registration that pushes an entry for every limited call, nested or not.
RegistersNested(k, tl, ml) == tl > 0 \/ ml > 0

\* v8js_v8_call (not in this file): a limited execution is registered with
\* the watchdog unless it is nested in an execution of the same Context.
Registers(k, tl, ml) == k.in_execution = 0 /\ (tl > 0 \/ ml > 0)

TimerEntry(c, tl, ml, t) ==
    [ctx |-> c, time_limit |-> tl, memory_limit |-> ml, time_point |-> t + tl,
     killed |-> FALSE]

\* v8js_v8_call up to the engine call: register, start the watchdog thread
\* with the first limited execution, mark the Context as executing.
\* temp says whether the script run is the temporary one of executeString.
V8CallEnterFrom(c, tl, ml, temp) ==
    LET reg == Registers(ctx[c], tl, ml) IN
    /\ Len(frames) < MaxDepth
    /\ reg => mutex = "free"
    /\ timer_stack' = IF reg THEN <<TimerEntry(c, tl, ml, now)>> \o timer_stack
                      ELSE timer_stack
    /\ timer_thread' = IF reg /\ timer_thread = 0 THEN 1 ELSE timer_thread
    /\ ctx' = [ctx EXCEPT ![c].in_execution = @ + 1]
    /\ frames' = Append(frames, [c |-> c, pushed |-> reg, aborted |-> FALSE,
                                 temp |-> temp])

V8CallEnter(c, tl, ml) == V8CallEnterFrom(c, tl, ml, FALSE)

\* PHP_METHOD(V8Js, executeScript) with v8js_execute_script up to the engine call
ExecuteScript(c, r, tl, ml) ==
    /\ HostIdle /\ Untouched(c)
    /\ ctx[c].context
    /\ script[r].state # "none"
    /\ LET eff_tl == EffectiveLimit(ctx[c].in_execution, tl, ctx[c].time_limit)
           eff_ml == EffectiveLimit(ctx[c].in_execution, ml, ctx[c].memory_limit)
           call == [op |-> "executeScript", c |-> c, res |-> r]
       IN
       IF NegativeLimit(ml) \/ script[r].state # "live" \/ Mismatch(script[r], c)
       THEN /\ last' = call @@
                       [result |-> IF NegativeLimit(ml) THEN "invalid"
                                   ELSE IF script[r].state # "live" THEN "noresource"
                                   ELSE "false"]
            /\ UNCHANGED <<ctx, timer_stack, timer_thread, frames>>
       ELSE /\ V8CallEnter(c, eff_tl, eff_ml)
            /\ last' = call @@ [result |-> "running", tl |-> tl, ml |-> ml,
                                eff_tl |-> eff_tl, eff_ml |-> eff_ml]
    /\ UNCHANGED <<script, engines, fatal_error_abort, now, mutex, pc,
                   threads, terminate_at>>

\* PHP_METHOD(V8Js, executeString) up to the engine call: the script is
\* compiled into a temporary v8js_script that is never registered.
ExecuteString(c, o, tl, ml) ==
    /\ HostIdle /\ Untouched(c)
    /\ ctx[c].context
    /\ LET res == CompileScript(c, o)
           eff_tl == EffectiveLimit(ctx[c].in_execution, tl, ctx[c].time_limit)
           eff_ml == EffectiveLimit(ctx[c].in_execution, ml, ctx[c].memory_limit)
           call == [op |-> "executeString", c |-> c, res |-> 0]
       IN
       IF NegativeLimit(ml) \/ res = NoScript \/ Mismatch(res, c)
       THEN /\ last' = call @@ [result |-> IF NegativeLimit(ml) THEN "invalid"
                                            ELSE "false"]
            /\ UNCHANGED <<ctx, timer_stack, timer_thread, frames>>
       ELSE /\ V8CallEnterFrom(c, eff_tl, eff_ml, TRUE)
            /\ last' = call @@ [result |-> "running", tl |-> tl, ml |-> ml,
                                eff_tl |-> eff_tl, eff_ml |-> eff_ml]
    /\ UNCHANGED <<script, engines, fatal_error_abort, now, mutex, pc,
                   threads, terminate_at>>

\* What the engine call can come back with.
EngineResults == {"value", "exception"}

\* v8js_v8_call after the engine call (not in this file): a guest value is
\* converted, a guest exception is translated into a host exception.
V8CallResult(engine, flags) ==
    IF engine = "exception" THEN "translated_exception" ELSE "value"

\* A check of the marker that lets a pending exception take precedence.
ExecuteResultUnlessThrown(marker, result) ==
    IF marker /\ result = "value" THEN "bailout" ELSE result

\* if (V8JSG(fatal_error_abort)) zend_bailout();
ExecuteResult(marker, result) ==
    IF marker THEN "bailout" ELSE result

\* A zend_catch block that re-raises the bailout without freeing the script.
ExecuteStringExitLeaks(out) ==
    IF out = "bailout"
    THEN [frees |-> 0, bailout |-> TRUE]
    ELSE [frees |-> 1, bailout |-> FALSE]

\* executeString after v8js_execute_script: on a normal return the zend_try
\* block goes on to v8js_script_free(res); on a bailout the zend_catch block
\* calls v8js_script_free(res) and then zend_bailout().  frees counts the
\* calls of v8js_script_free on the temporary script.
ExecuteStringExit(out) ==
    IF out = "bailout"
    THEN [frees |-> 1, bailout |-> TRUE]
    ELSE [frees |-> 1, bailout |-> FALSE]

\* executeScript has no zend_try: a bailout passes through it.
ExecuteScriptExit(out) == [frees |-> 0, bailout |-> out = "bailout"]

\* The entry of Context c leaves the registry.
PopEntry(stack, c) ==
    LET i == CHOOSE j \in DOMAIN stack :
                 stack[j].ctx = c /\ \A h \in 1..(j - 1) : stack[h].ctx # c
    IN  SubSeq(stack, 1, i - 1) \o SubSeq(stack, i + 1, Len(stack))

\* The engine call of the innermost execution returns: v8js_v8_call unregisters
\* the execution, then v8js_execute_script checks the fatal-abort marker.
\* flags are the flags of the call: v8js_execute_script only hands them on to
\* v8js_v8_call, so they are drawn here, where they are first looked at.
ExecuteReturn(engine, flags) ==
    /\ \A c \in Ctx : Untouched(c) \/ Freed(c)
    /\ pc = <<>>
    /\ frames # <<>>
    /\ frames[Len(frames)].pushed => mutex = "free"
    /\ LET f == frames[Len(frames)]
           rest == SubSeq(frames, 1, Len(frames) - 1)
           out == ExecuteResult(fatal_error_abort, V8CallResult(engine, flags))
           exit == IF f.temp THEN ExecuteStringExit(out) ELSE ExecuteScriptExit(out)
       IN
       /\ ctx' = [ctx EXCEPT ![f.c].in_execution = @ - 1]
       /\ timer_stack' = IF f.pushed THEN PopEntry(timer_stack, f.c) ELSE timer_stack
       /\ frames' = IF exit.bailout /\ rest # <<>>
                     THEN [rest EXCEPT ![Len(rest)].aborted = TRUE]
                     ELSE rest
       /\ last' = [op |-> "executeReturn", c |-> f.c, engine |-> engine,
                   flags |-> flags, marker |-> fatal_error_abort,
                   outcome |-> out, temp |-> f.temp, frees |-> exit.frees,
                   bailout |-> exit.bailout]
    /\ UNCHANGED <<script, engines, timer_thread, fatal_error_abort, now, mutex, pc,
                   threads, terminate_at>>

(***************************************************************************)
(* The watchdog thread (v8js_timer_thread, not in this file)               *)
(***************************************************************************)
Tick ==
    /\ now < MaxTime
    /\ now' = now + 1
    /\ last' = [op |-> "tick"]
    /\ UNCHANGED <<ctx, script, engines, timer_stack, timer_thread,
                   fatal_error_abort, frames, mutex, pc, threads,
                   terminate_at>>

\* The entry is over its time limit, or its engine's heap is found over its
\* memory limit (heap usage is not modelled: any limited entry may be).
OverLimit(e, t, heap_over) ==
    \/ e.time_limit > 0 /\ t > e.time_point
    \/ e.memory_limit > 0 /\ heap_over

\* The watchdog finds entry i over a limit: it marks the entry killed, asks
\* the engine to terminate and sets the fatal-abort marker.
WatchdogMark(i, heap_over) ==
    /\ timer_thread > 0
    /\ i \in DOMAIN timer_stack
    /\ ~timer_stack[i].killed
    /\ OverLimit(timer_stack[i], now, heap_over)
    /\ timer_stack' = [timer_stack EXCEPT ![i].killed = TRUE]
    /\ fatal_error_abort' = TRUE
    /\ last' = [op |-> "watchdogKill", c |-> timer_stack[i].ctx]
    /\ UNCHANGED <<ctx, script, engines, timer_thread, now, frames, mutex, pc,
                   threads>>

\* One poll of the watchdog, taken as a whole: lock, scan, unlock.
WatchdogKill(i, heap_over) ==
    /\ mutex = "free"
    /\ WatchdogMark(i, heap_over)
    /\ UNCHANGED terminate_at

(***************************************************************************)
(* The execution protocol on two constructed Contexts                      *)
(***************************************************************************)
\* Executions with and without explicit limits, nested in one another, on
\* Contexts whose default limits are set between executions.
DefaultArgs == [object_name |-> "", vars |-> 0, blob |-> FALSE]

\* A Context constructed with default arguments, one script compiled on it.
ConstructedCtx(c) ==
    [ConstructBody(NewCtx, DefaultArgs, "none", IF c = "c1" THEN 1 ELSE 2)
        EXCEPT !.script_objects = <<IF c = "c1" THEN 1 ELSE 2>>]

\* Both Contexts constructed, one script compiled on each.
InitExec ==
    /\ ctx = [c \in Ctx |-> ConstructedCtx(c)]
    /\ script = [r \in Scripts |->
                   IF r = 1 THEN CompileScript("c1", "ok")
                   ELSE IF r = 2 THEN CompileScript("c2", "ok")
                   ELSE NoScript]
    /\ engines = <<0, 0>>
    /\ timer_stack = <<>>
    /\ timer_thread = 0
    /\ fatal_error_abort = FALSE
    /\ now = 0
    /\ frames = <<>>
    /\ mutex = "free"
    /\ pc = <<>>
    /\ threads = NoThreads
    /\ terminate_at = [c \in Ctx |-> NULL]
    /\ last = [op |-> "init"]

NextExec ==
    \/ \E c \in Ctx, r \in Scripts, tl \in ExplicitLimits, ml \in ExplicitLimits :
          ExecuteScript(c, r, tl, ml)
    \/ \E e \in EngineResults, fl \in Flags : ExecuteReturn(e, fl)
    \/ \E c \in Ctx, ms \in DefaultLimits : frames = <<>> /\ SetTimeLimit(c, ms)
    \/ \E c \in Ctx, bytes \in DefaultLimits :
          frames = <<>> /\ SetMemoryLimit(c, bytes)
    \/ \E i \in 1..MaxDepth, h \in BOOLEAN : WatchdogKill(i, h)

SpecExec == InitExec /\ [][NextExec]_vars

(***************************************************************************)
(* Limits set while executions run on the clock                            *)
(***************************************************************************)
\* Each Context runs its own script under its default limits; the limits are
\* changed between and during executions while time passes and the watchdog
\* polls.
NextLimits ==
    \/ \E c \in Ctx, r \in Scripts : script[r].ctx = c /\ ExecuteScript(c, r, 0, 0)
    \/ ExecuteReturn("value", "NONE")
    \/ \E c \in Ctx, ms \in DefaultLimits : SetTimeLimit(c, ms)
    \/ \E c \in Ctx, bytes \in DefaultLimits \cup NegativeLimits :
          SetMemoryLimit(c, bytes)
    \/ Tick
    \/ \E i \in 1..MaxDepth, h \in BOOLEAN : WatchdogKill(i, h)

SpecLimits == InitExec /\ [][NextLimits]_vars

(***************************************************************************)
(* Calls with rejected arguments                                           *)
(***************************************************************************)
\* Compiled and uncompiled scripts are executed, nested in one another, with
\* memory limits that are absent, positive or negative, on Contexts whose
\* default memory limit is set, with the same values, between and during
\* executions.
NextArgs ==
    \/ \E c \in Ctx, r \in Scripts, ml \in ExplicitLimits \cup NegativeLimits :
          ExecuteScript(c, r, 0, ml)
    \/ \E c \in Ctx, o \in CompileOutcomes, ml \in ExplicitLimits \cup NegativeLimits :
          ExecuteString(c, o, 0, ml)
    \/ \E e \in EngineResults : ExecuteReturn(e, "NONE")
    \/ \E c \in Ctx, bytes \in DefaultLimits \cup NegativeLimits :
          SetMemoryLimit(c, bytes)

SpecArgs == InitExec /\ [][NextArgs]_vars

(***************************************************************************)
(* executeString and its temporary script                                  *)
(***************************************************************************)
\* Source strings and compiled scripts are executed, nested in one another,
\* with and without a memory limit, while the watchdog finds executions over
\* their limit.
NextString ==
    \/ \E c \in Ctx, o \in CompileOutcomes, ml \in ExplicitLimits :
          ExecuteString(c, o, 0, ml)
    \/ \E c \in Ctx, r \in Scripts : script[r].ctx = c /\ ExecuteScript(c, r, 0, 0)
    \/ \E e \in EngineResults, fl \in Flags : ExecuteReturn(e, fl)
    \/ \E i \in 1..MaxDepth, h \in BOOLEAN : WatchdogKill(i, h)

SpecString == InitExec /\ [][NextString]_vars

(***************************************************************************)
(* Script resources and the Contexts they were compiled on                 *)
(***************************************************************************)
\* Both Contexts constructed, no script compiled.
InitResources ==
    /\ ctx = [c \in Ctx |-> [ConstructedCtx(c) EXCEPT !.script_objects = <<>>]]
    /\ script = [r \in Scripts |-> NoScript]
    /\ engines = <<0, 0>>
    /\ timer_stack = <<>>
    /\ timer_thread = 0
    /\ fatal_error_abort = FALSE
    /\ now = 0
    /\ frames = <<>>
    /\ mutex = "free"
    /\ pc = <<>>
    /\ threads = NoThreads
    /\ terminate_at = [c \in Ctx |-> NULL]
    /\ last = [op |-> "init"]

\* Scripts are compiled on either Context, executed on either Context and
\* destroyed, and Contexts are torn down while resources compiled on them
\* are still held by the host.
NextResources ==
    \/ \E c \in Ctx, o \in CompileOutcomes : CompileString(c, o)
    \/ \E c \in Ctx, r \in Scripts : ExecuteScript(c, r, 0, 0)
    \/ \E e \in EngineResults : ExecuteReturn(e, "NONE")
    \/ \E r \in Scripts : ScriptDtor(r)
    \/ \E c \in Ctx : FreeStep(c)

SpecResources == InitResources /\ [][NextResources]_vars

(***************************************************************************)
(* PHP_METHOD(V8Js, __sleep), PHP_METHOD(V8Js, __wakeup)                   *)
(***************************************************************************)
SerializeMethods == {"__sleep", "__wakeup"}

\* A __wakeup that resets the limits of the object it is called on.
SerializeBodyResetsLimits(k, method) ==
    IF method = "__wakeup"
    THEN [k EXCEPT !.time_limit = 0, !.memory_limit = 0]
    ELSE k

\* The fields of the Context after the body of __sleep or __wakeup: the
\* methods throw and return false without looking at the object.
SerializeBody(k, method) == k

\* "You cannot serialize or unserialize V8Js instances"
SerializeResult(method) == "unsupported"

\* serialize() calls __sleep on an object in any state; unserialize()
\* allocates an object (v8js_new) and calls __wakeup on it, without
\* __construct.
Serialize(c, method) ==
    /\ HostIdle /\ Untouched(c)
    /\ ctx' = [ctx EXCEPT ![c] = [SerializeBody(ctx[c], method)
                                    EXCEPT !.serialize_called = TRUE]]
    /\ last' = [op |-> method, c |-> c, result |-> SerializeResult(method)]
    /\ UNCHANGED <<script, engines, timer_stack, timer_thread, fatal_error_abort,
                   now, frames, mutex, pc, threads, terminate_at>>

\* One Context through construction, with every early exit, limit setting,
\* serialization attempts and teardown.
NextSerialize ==
    \/ \E c \in LifeCtx, a \in ConstructArgs, f \in FailPoints : Construct(c, a, f)
    \/ \E c \in LifeCtx, method \in SerializeMethods : Serialize(c, method)
    \/ \E c \in LifeCtx, ms \in DefaultLimits : SetTimeLimit(c, ms)
    \/ \E c \in LifeCtx, bytes \in DefaultLimits : SetMemoryLimit(c, bytes)
    \/ \E c \in LifeCtx : FreeStep(c)

SpecSerialize == Init /\ [][NextSerialize]_vars

(***************************************************************************)
(* __construct: the loop that exports the public methods                   *)
(***************************************************************************)
MaxTable == 3       \* methods in the function table of the host object's class

\* The names under which methods are declared, and the lower-case key under
\* which the host language files each in the function table of the class.
Lower ==
    [ run |-> "run", helper |-> "helper",
      __construct |-> "__construct", __destruct |-> "__destruct",
      __get |-> "__get", __toString |-> "__tostring",
      executeString |-> "executestring", ExecuteString |-> "executestring",
      setTimeLimit |-> "settimelimit" ]

\* ZEND_CALLSTATIC_FUNC_NAME ... ZEND_ISSET_FUNC_NAME
MagicNames ==
    {"__callstatic", "__sleep", "__wakeup", "__set_state", "__get", "__set",
     "__unset", "__call", "__invoke", "__tostring", "__isset"}

\* The fname column of v8js_methods.
V8JsMethods ==
    {"__construct", "__sleep", "__wakeup", "executeString", "compileString",
     "executeScript", "setModuleNormaliser", "setModuleLoader", "setTimeLimit",
     "setMemoryLimit", "setAverageObjectSize", "createSnapshot"}

\* Methods a class derived from V8Js can hold: function_name as declared,
\* whether it is public, whether it carries ZEND_ACC_CTOR or ZEND_ACC_DTOR.
MethodUniverse ==
    { [name |-> "run",           public |-> TRUE,  ctor_dtor |-> FALSE],
      [name |-> "helper",        public |-> FALSE, ctor_dtor |-> FALSE],
      [name |-> "__construct",   public |-> TRUE,  ctor_dtor |-> TRUE],
      [name |-> "__destruct",    public |-> TRUE,  ctor_dtor |-> TRUE],
      [name |-> "__get",         public |-> TRUE,  ctor_dtor |-> FALSE],
      [name |-> "__toString",    public |-> TRUE,  ctor_dtor |-> FALSE],
      [name |-> "executeString", public |-> TRUE,  ctor_dtor |-> FALSE],
      [name |-> "ExecuteString", public |-> TRUE,  ctor_dtor |-> FALSE],
      [name |-> "setTimeLimit",  public |-> TRUE,  ctor_dtor |-> FALSE] }

\* A function table holds one method under each key.
FunctionTables ==
    { t \in SUBSET MethodUniverse :
        /\ Cardinality(t) <= MaxTable
        /\ \A m \in t, n \in t : Lower[m.name] = Lower[n.name] => m = n }

\* IS_MAGIC_FUNC: the key has the length of the magic name and equals it up
\* to case.
IsMagicFunc(key) == key \in MagicNames

\* for (fe = v8js_methods; fe->fname; fe++) if (strcmp(fe->fname, name) == 0)
BelongsToV8Js(name) == name \in V8JsMethods

\* The four 'continue' statements of the loop.
SkipsMethod(m) ==
    \/ ~m.public
    \/ m.ctor_dtor
    \/ IsMagicFunc(Lower[m.name])
    \/ BelongsToV8Js(m.name)

\* The loop over the function table: for each method not skipped, one
\* FunctionTemplate::New (wrapped counts them), one entry of c->method_tmpls
\* under the method, one property of the exported object under its name.
RECURSIVE ExportLoop(_, _)
ExportLoop(table, acc) ==
    IF table = {} THEN acc
    ELSE LET m == CHOOSE x \in table : TRUE
             rest == table \ {m}
         IN  IF SkipsMethod(m)
             THEN ExportLoop(rest, acc)
             ELSE ExportLoop(rest,
                    [ published    |-> acc.published \cup {m.name},
                      method_tmpls |-> acc.method_tmpls \cup {Lower[m.name]},
                      wrapped      |-> acc.wrapped + 1 ])

ExportMethods(table) ==
    ExportLoop(table, [published |-> {}, method_tmpls |-> {}, wrapped |-> 0])

\* __construct reaches the loop on an object of a class with this table.
ExportPublicMethods(table) ==
    /\ last = [op |-> "class", table |-> table]
    /\ last' = [op |-> "exportMethods", table |-> table,
                exported |-> ExportMethods(table)]
    /\ UNCHANGED <<ctx, script, engines, timer_stack, timer_thread,
                   fatal_error_abort, now, frames, mutex, pc, threads,
                   terminate_at>>

\* An allocated Context whose class has some function table.
InitExport ==
    /\ ctx = [c \in Ctx |-> NewCtx]
    /\ script = [r \in Scripts |-> NoScript]
    /\ engines = <<>>
    /\ timer_stack = <<>>
    /\ timer_thread = 0
    /\ fatal_error_abort = FALSE
    /\ now = 0
    /\ frames = <<>>
    /\ mutex = "free"
    /\ pc = <<>>
    /\ threads = NoThreads
    /\ terminate_at = [c \in Ctx |-> NULL]
    /\ last \in {[op |-> "class", table |-> t] : t \in FunctionTables}

NextExport == \E t \in FunctionTables : ExportPublicMethods(t)

SpecExport == InitExport /\ [][NextExport]_vars

(***************************************************************************)
(* v8js_write_property, v8js_unset_property                                *)
(***************************************************************************)
\* if (ZSTR_LEN(member) > std::numeric_limits<int>::max())
Oversized(n) == n = "huge"

\* A handler that exports every property the scope may access.
ExportsToGuestAnyAccessible(kind) == kind # "wrong"

\* if (!property_info || (property_info != ZEND_WRONG_PROPERTY_INFO &&
\*                        (property_info->flags & ZEND_ACC_PUBLIC)))
ExportsToGuest(kind) == kind = "undeclared" \/ kind = "public"

\* std_object_handlers.write_property / unset_property (the host language's
\* own handlers): they act unless the scope may not access the property.
StdWriteProperty(props, n, v) ==
    IF PropKind[n] = "wrong" THEN props ELSE [props EXCEPT ![n] = HostProperty(v)]
StdUnsetProperty(props, n) ==
    IF PropKind[n] = "wrong" THEN props ELSE [props EXCEPT ![n] = NoProperty]

WriteProperty(c, n, v) ==
    /\ HostIdle /\ Untouched(c)
    /\ ctx[c].context
    /\ IF ExportsToGuest(PropKind[n]) /\ Oversized(n)
       THEN /\ ctx' = ctx
            /\ last' = [op |-> "writeProperty", c |-> c, member |-> n,
                        value |-> v, result |-> "invalid"]
       ELSE /\ ctx' = [ctx EXCEPT
                         ![c].js_props = IF ExportsToGuest(PropKind[n])
                                         THEN [@ EXCEPT ![n] = GuestProperty(v)]
                                         ELSE @,
                         ![c].props = StdWriteProperty(@, n, v)]
            /\ last' = [op |-> "writeProperty", c |-> c, member |-> n,
                        value |-> v, result |-> "done"]
    /\ UNCHANGED <<script, engines, timer_stack, timer_thread, fatal_error_abort,
                   now, frames, mutex, pc, threads, terminate_at>>

UnsetProperty(c, n) ==
    /\ HostIdle /\ Untouched(c)
    /\ ctx[c].context
    /\ IF Oversized(n)
       THEN /\ ctx' = ctx
            /\ last' = [op |-> "unsetProperty", c |-> c, member |-> n,
                        result |-> "invalid"]
       ELSE /\ ctx' = [ctx EXCEPT
                         ![c].js_props = [@ EXCEPT ![n] = NoProperty],
                         ![c].props = StdUnsetProperty(@, n)]
            /\ last' = [op |-> "unsetProperty", c |-> c, member |-> n,
                        result |-> "done"]
    /\ UNCHANGED <<script, engines, timer_stack, timer_thread, fatal_error_abort,
                   now, frames, mutex, pc, threads, terminate_at>>

\* The host writes and unsets properties of a constructed Context.
NextProps ==
    \/ \E c \in LifeCtx, n \in PropNames, v \in Values : WriteProperty(c, n, v)
    \/ \E c \in LifeCtx, n \in PropNames : UnsetProperty(c, n)

SpecProps == InitExec /\ [][NextProps]_vars

(***************************************************************************)
(* createSnapshotDataBlob, PHP_METHOD(V8Js, createSnapshot)                *)
(***************************************************************************)
MaxSeedLen == 3     \* length of the seed source passed to createSnapshot
MaxBlobSize == 3    \* size of the blob the engine serializes

\* A v8::StartupData: data is whether the pointer is set, seeded whether the
\* heap it was serialized from had run the whole seed script.
NullBlob == [data |-> FALSE, raw_size |-> 0, seeded |-> FALSE]

\* A seed source and what the engine does with it: its length, whether it
\* compiles, whether it throws when run, and the size of the blob
\* SnapshotCreator::CreateBlob would serialize (0: it returns no data).
Seeds ==
    [len : 0..MaxSeedLen, compiles : BOOLEAN, throws : BOOLEAN,
     blob_size : 0..MaxBlobSize]

\* SnapshotCreator::CreateBlob on the heap the seed left behind.
CreateBlob(seed) ==
    IF seed.blob_size = 0 THEN NullBlob
    ELSE [data |-> TRUE, raw_size |-> seed.blob_size,
          seeded |-> seed.compiles /\ ~seed.throws]

\* A check of the seed that only looks at the compilation.
SeedFailedToCompile(seed) == ~seed.compiles

\* if (script.IsEmpty() || script.ToLocalChecked()->Run(context).IsEmpty())
SeedFailed(seed) == ~seed.compiles \/ seed.throws

CreateSnapshotDataBlob(seed) ==
    IF SeedFailed(seed) THEN NullBlob ELSE CreateBlob(seed)

\* The return value of createSnapshot: false, or a string of len bytes.
SnapshotResult(seed) ==
    IF seed.len = 0
    THEN [value |-> "false"]
    ELSE LET snapshot_blob == CreateSnapshotDataBlob(seed) IN
         IF ~snapshot_blob.data
         THEN [value |-> "false"]
         ELSE [value |-> "string", len |-> snapshot_blob.raw_size,
               seeded |-> snapshot_blob.seeded]

\* The static method: it touches no Context.
CreateSnapshot(seed) ==
    /\ last = [op |-> "seed", seed |-> seed]
    /\ last' = [op |-> "createSnapshot", seed |-> seed,
                result |-> SnapshotResult(seed)]
    /\ UNCHANGED <<ctx, script, engines, timer_stack, timer_thread,
                   fatal_error_abort, now, frames, mutex, pc, threads,
                   terminate_at>>

\* Before any Context is constructed, with a seed source at hand.
InitSnapshot ==
    /\ ctx = [c \in Ctx |-> NewCtx]
    /\ script = [r \in Scripts |-> NoScript]
    /\ engines = <<>>
    /\ timer_stack = <<>>
    /\ timer_thread = 0
    /\ fatal_error_abort = FALSE
    /\ now = 0
    /\ frames = <<>>
    /\ mutex = "free"
    /\ pc = <<>>
    /\ threads = NoThreads
    /\ terminate_at = [c \in Ctx |-> NULL]
    /\ last \in {[op |-> "seed", seed |-> s] : s \in Seeds}

NextSnapshot == \E s \in Seeds : CreateSnapshot(s)

SpecSnapshot == InitSnapshot /\ [][NextSnapshot]_vars

(***************************************************************************)
(* setTimeLimit and setMemoryLimit statement by statement, against the     *)
(* watchdog thread                                                         *)
(***************************************************************************)
\* A path through the setters that scans the registry without the mutex.
SetLimitPathNoLock == <<"store", "loop", "unlock", "thread">>

\* The statements of setTimeLimit / setMemoryLimit after argument checks:
\* store the default, lock timer_mutex, loop over timer_stack, unlock, then
\* look whether the timer thread has to be started.
SetLimitPath == <<"store", "lock", "loop", "unlock", "thread">>

SetLimitMethods == {"setTimeLimit", "setMemoryLimit"}

\* The host thread is at statement s of a setter.
AtStatement(s) == pc # <<>> /\ SetLimitPath[pc.k] = s

\* The host thread moves past the statement it is at, returning after the last.
Advance == IF pc.k = Len(SetLimitPath) THEN <<>> ELSE [pc EXCEPT !.k = @ + 1]

StepRecord(s) ==
    [op |-> "setLimitStep", method |-> pc.method, c |-> pc.c, step |-> s]

\* Entry into a setter: arguments parsed; setMemoryLimit throws on a negative
\* limit and returns.
SetLimitEnter(method, c, v) ==
    /\ HostIdle /\ Untouched(c)
    /\ IF method = "setMemoryLimit" /\ v < 0
       THEN /\ pc' = pc
            /\ last' = [op |-> "setLimitStep", method |-> method, c |-> c,
                        step |-> "rejected"]
       ELSE /\ pc' = [method |-> method, c |-> c, arg |-> v, k |-> 1, i |-> 1]
            /\ last' = [op |-> "setLimitStep", method |-> method, c |-> c,
                        step |-> "enter"]
    /\ UNCHANGED <<ctx, script, engines, timer_stack, timer_thread,
                   fatal_error_abort, now, frames, mutex, threads,
                   terminate_at>>

\* c->time_limit = time_limit;  c->memory_limit = memory_limit;
SetLimitStore ==
    /\ AtStatement("store")
    /\ ctx' = IF pc.method = "setTimeLimit"
              THEN [ctx EXCEPT ![pc.c].time_limit = pc.arg]
              ELSE [ctx EXCEPT ![pc.c].memory_limit = pc.arg]
    /\ pc' = Advance
    /\ last' = StepRecord("store")
    /\ UNCHANGED <<script, engines, timer_stack, timer_thread,
                   fatal_error_abort, now, frames, mutex, threads,
                   terminate_at>>

\* V8JSG(timer_mutex).lock();
SetLimitLock ==
    /\ AtStatement("lock")
    /\ mutex = "free"
    /\ mutex' = "host"
    /\ pc' = Advance
    /\ last' = StepRecord("lock")
    /\ UNCHANGED <<ctx, script, engines, timer_stack, timer_thread,
                   fatal_error_abort, now, frames, threads, terminate_at>>

\* One iteration of the loop over V8JSG(timer_stack), or its end.
SetLimitLoop ==
    /\ AtStatement("loop")
    /\ IF pc.i \in DOMAIN timer_stack
       THEN /\ timer_stack' =
                 [timer_stack EXCEPT ![pc.i] =
                    IF pc.method = "setTimeLimit"
                    THEN TimeLimitLoop(<<@>>, pc.c, pc.arg, now)[1]
                    ELSE MemoryLimitLoop(<<@>>, pc.c, pc.arg)[1]]
            /\ pc' = [pc EXCEPT !.i = @ + 1]
       ELSE /\ timer_stack' = timer_stack
            /\ pc' = Advance
    /\ last' = StepRecord("loop")
    /\ UNCHANGED <<ctx, script, engines, timer_thread, fatal_error_abort, now,
                   frames, mutex, threads, terminate_at>>

\* V8JSG(timer_mutex).unlock();
SetLimitUnlock ==
    /\ AtStatement("unlock")
    /\ mutex' = "free"
    /\ pc' = Advance
    /\ last' = StepRecord("unlock")
    /\ UNCHANGED <<ctx, script, engines, timer_stack, timer_thread,
                   fatal_error_abort, now, frames, threads, terminate_at>>

\* if (c->in_execution && limit && !V8JSG(timer_thread)) start the thread
SetLimitThread ==
    /\ AtStatement("thread")
    /\ timer_thread' = IF InstallsTimer(ctx[pc.c], pc.arg, timer_thread)
                       THEN timer_thread + 1 ELSE timer_thread
    /\ pc' = Advance
    /\ last' = StepRecord("thread")
    /\ UNCHANGED <<ctx, script, engines, timer_stack, fatal_error_abort, now,
                   frames, mutex, threads, terminate_at>>

\* The watchdog thread (not in this file) takes the mutex for a poll.
WatchdogLock ==
    /\ timer_thread > 0
    /\ mutex = "free"
    /\ mutex' = "watchdog"
    /\ last' = [op |-> "watchdogLock"]
    /\ UNCHANGED <<ctx, script, engines, timer_stack, timer_thread,
                   fatal_error_abort, now, frames, pc, threads, terminate_at>>

WatchdogPoll(i, heap_over) ==
    /\ mutex = "watchdog"
    /\ WatchdogMark(i, heap_over)
    /\ UNCHANGED terminate_at

WatchdogUnlock ==
    /\ mutex = "watchdog"
    /\ mutex' = "free"
    /\ last' = [op |-> "watchdogUnlock"]
    /\ UNCHANGED <<ctx, script, engines, timer_stack, timer_thread,
                   fatal_error_abort, now, frames, pc, threads, terminate_at>>

NextLock ==
    \/ \E c \in Ctx, r \in Scripts : script[r].ctx = c /\ ExecuteScript(c, r, 0, 0)
    \/ ExecuteReturn("value", "NONE")
    \/ \E method \in SetLimitMethods, c \in LifeCtx,
          v \in DefaultLimits \cup NegativeLimits : SetLimitEnter(method, c, v)
    \/ SetLimitStore
    \/ SetLimitLock
    \/ SetLimitLoop
    \/ SetLimitUnlock
    \/ SetLimitThread
    \/ WatchdogLock
    \/ \E i \in 1..MaxDepth, h \in BOOLEAN : WatchdogPoll(i, h)
    \/ WatchdogUnlock

\* Both Contexts constructed; the Context whose setters are not followed
\* statement by statement has been given its limits already.
InitLock ==
    /\ ctx = [c \in Ctx |->
                IF c \in LifeCtx THEN ConstructedCtx(c)
                ELSE [ConstructedCtx(c) EXCEPT !.time_limit = MaxDefault,
                                               !.memory_limit = MaxDefault]]
    /\ script = [r \in Scripts |->
                   IF r = 1 THEN CompileScript("c1", "ok")
                   ELSE IF r = 2 THEN CompileScript("c2", "ok")
                   ELSE NoScript]
    /\ engines = <<0, 0>>
    /\ timer_stack = <<>>
    /\ timer_thread = 0
    /\ fatal_error_abort = FALSE
    /\ now = 0
    /\ frames = <<>>
    /\ mutex = "free"
    /\ pc = <<>>
    /\ threads = NoThreads
    /\ terminate_at = [c \in Ctx |-> NULL]
    /\ last = [op |-> "init"]

SpecLock == InitLock /\ [][NextLock]_vars

(***************************************************************************)
(* Host threads calling concurrently                                       *)
(***************************************************************************)
\* Host threads call execute and the limit setters on one Context, each at
\* its own pace.  The statements of a setter that touch shared state are
\* separate steps: the store of the default, the loop under timer_mutex, the
\* read of "c->in_execution && limit && !V8JSG(timer_thread)", and the start
\* of the thread with the store into V8JSG(timer_thread).
ThreadRecord(t) == [op |-> "thread", t |-> t]

\* An execution without explicit limits starts on thread t.  The engine call
\* (v8js_v8_call, not in this file) holds the engine lock of the Context, so
\* one thread at a time executes on it.
ThreadExecute(t, c) ==
    /\ threads[t] = IdleThread
    /\ ctx[c].context /\ Untouched(c)
    /\ \A u \in Threads : threads[u].running # c
    /\ mutex = "free"
    /\ LET tl == EffectiveLimit(ctx[c].in_execution, 0, ctx[c].time_limit)
           ml == EffectiveLimit(ctx[c].in_execution, 0, ctx[c].memory_limit)
           reg == Registers(ctx[c], tl, ml)
       IN  /\ timer_stack' = IF reg THEN <<TimerEntry(c, tl, ml, now)>> \o timer_stack
                             ELSE timer_stack
           /\ timer_thread' = IF reg /\ timer_thread = 0 THEN 1 ELSE timer_thread
    /\ ctx' = [ctx EXCEPT ![c].in_execution = @ + 1]
    /\ threads' = [threads EXCEPT ![t].running = c]
    /\ last' = ThreadRecord(t)
    /\ UNCHANGED <<script, engines, fatal_error_abort, now, frames, mutex, pc,
                   terminate_at>>

\* The execution on thread t returns.
ThreadReturn(t) ==
    /\ threads[t].at = "idle" /\ threads[t].running # NULL
    /\ mutex = "free"
    /\ LET c == threads[t].running IN
       /\ ctx' = [ctx EXCEPT ![c].in_execution = @ - 1]
       /\ timer_stack' = IF \E i \in DOMAIN timer_stack : timer_stack[i].ctx = c
                         THEN PopEntry(timer_stack, c) ELSE timer_stack
       /\ last' = ThreadRecord(t)
    /\ threads' = [threads EXCEPT ![t].running = NULL]
    /\ UNCHANGED <<script, engines, timer_thread, fatal_error_abort, now, frames,
                   mutex, pc, terminate_at>>

\* Thread t calls a setter, from host code or from a callback of the
\* execution it is running; setMemoryLimit throws on a negative limit.
ThreadSetLimitEnter(t, method, c, v) ==
    /\ threads[t].at = "idle"
    /\ ctx[c].context /\ Untouched(c)
    /\ IF method = "setMemoryLimit" /\ v < 0
       THEN threads' = threads
       ELSE threads' = [threads EXCEPT ![t] =
                          [at |-> "store", running |-> threads[t].running,
                           method |-> method, c |-> c, arg |-> v]]
    /\ last' = ThreadRecord(t)
    /\ UNCHANGED <<ctx, script, engines, timer_stack, timer_thread,
                   fatal_error_abort, now, frames, mutex, pc, terminate_at>>

\* c->time_limit = time_limit;  c->memory_limit = memory_limit;
ThreadSetLimitStore(t) ==
    /\ threads[t].at = "store"
    /\ ctx' = IF threads[t].method = "setTimeLimit"
              THEN [ctx EXCEPT ![threads[t].c].time_limit = threads[t].arg]
              ELSE [ctx EXCEPT ![threads[t].c].memory_limit = threads[t].arg]
    /\ threads' = [threads EXCEPT ![t].at = "loop"]
    /\ last' = ThreadRecord(t)
    /\ UNCHANGED <<script, engines, timer_stack, timer_thread, fatal_error_abort,
                   now, frames, mutex, pc, terminate_at>>

\* lock(); the loop over timer_stack; unlock();
ThreadSetLimitLoop(t) ==
    /\ threads[t].at = "loop"
    /\ mutex = "free"
    /\ timer_stack' =
         IF threads[t].method = "setTimeLimit"
         THEN TimeLimitLoop(timer_stack, threads[t].c, threads[t].arg, now)
         ELSE MemoryLimitLoop(timer_stack, threads[t].c, threads[t].arg)
    /\ threads' = [threads EXCEPT ![t].at = "check"]
    /\ last' = ThreadRecord(t)
    /\ UNCHANGED <<ctx, script, engines, timer_thread, fatal_error_abort, now,
                   frames, mutex, pc, terminate_at>>

\* if (c->in_execution && limit && !V8JSG(timer_thread)): the condition is read.
ThreadSetLimitCheck(t) ==
    /\ threads[t].at = "check"
    /\ threads' = [threads EXCEPT ![t] =
                      [at |-> "start", running |-> @.running, method |-> @.method,
                       c |-> @.c, arg |-> @.arg,
                       install |-> InstallsTimer(ctx[@.c], @.arg, timer_thread)]]
    /\ last' = ThreadRecord(t)
    /\ UNCHANGED <<ctx, script, engines, timer_stack, timer_thread,
                   fatal_error_abort, now, frames, mutex, pc, terminate_at>>

\* V8JSG(timer_thread) = new std::thread(...), when the condition held; return.
ThreadSetLimitStart(t) ==
    /\ threads[t].at = "start"
    /\ timer_thread' = IF threads[t].install THEN timer_thread + 1 ELSE timer_thread
    /\ threads' = [threads EXCEPT ![t] = [at |-> "idle", running |-> @.running]]
    /\ last' = ThreadRecord(t)
    /\ UNCHANGED <<ctx, script, engines, timer_stack, fatal_error_abort, now,
                   frames, mutex, pc, terminate_at>>

NextThreads ==
    \/ \E t \in Threads, c \in LifeCtx : ThreadExecute(t, c)
    \/ \E t \in Threads : ThreadReturn(t)
    \/ \E t \in Threads, method \in SetLimitMethods, c \in LifeCtx,
          v \in DefaultLimits \cup NegativeLimits : ThreadSetLimitEnter(t, method, c, v)
    \/ \E t \in Threads : ThreadSetLimitStore(t)
    \/ \E t \in Threads : ThreadSetLimitLoop(t)
    \/ \E t \in Threads : ThreadSetLimitCheck(t)
    \/ \E t \in Threads : ThreadSetLimitStart(t)

SpecThreads == InitExec /\ [][NextThreads]_vars

(***************************************************************************)
(* Scripts that never return, on the clock of the watchdog                 *)
(***************************************************************************)
\* Ticks between two polls of the watchdog thread, and ticks the engine takes
\* to stop a script after it was asked to terminate.
PollInterval == 1
EngineResponseLatency == 1

\* The longest time limit an execution is given, and the ticks of a run: an
\* execution starts only if its abort fits into the run.
LongestLimit == MaxDefault + 1
WatchHorizon == LongestLimit + PollInterval + EngineResponseLatency + 1

\* The engine of Context c has been asked to terminate its running script.
Terminated(c) ==
    \E i \in DOMAIN timer_stack : timer_stack[i].ctx = c /\ timer_stack[i].killed

\* Time passes.  The watchdog lets no poll interval pass without a poll, and
\* the engine stops a terminated script within its response latency.
Elapse ==
    /\ now < WatchHorizon
    /\ \A i \in DOMAIN timer_stack :
         LET e == timer_stack[i] IN
         /\ (~e.killed /\ e.time_limit > 0) => now < e.time_point + PollInterval
         /\ e.killed => now < terminate_at[e.ctx] + EngineResponseLatency
    /\ now' = now + 1
    /\ last' = [op |-> "tick"]
    /\ UNCHANGED <<ctx, script, engines, timer_stack, timer_thread,
                   fatal_error_abort, frames, mutex, pc, threads, terminate_at>>

\* A script that never returns is started with or without an explicit time
\* limit, at the outermost level or from a callback.
WatchExecute(c, r, tl) ==
    /\ now + LongestLimit + PollInterval + EngineResponseLatency <= WatchHorizon
    /\ script[r].ctx = c
    /\ ExecuteScript(c, r, tl, 0)

\* A poll of the watchdog finds entry i past its deadline.
WatchdogTerminate(i) ==
    /\ mutex = "free"
    /\ WatchdogMark(i, FALSE)
    /\ terminate_at' = [terminate_at EXCEPT ![timer_stack[i].ctx] = now]

\* The engine call of the innermost execution comes back only because the
\* engine was terminated, or because the host is unwinding from a bailout.
WatchReturn(engine, flags) ==
    /\ frames # <<>>
    /\ Terminated(frames[Len(frames)].c) \/ frames[Len(frames)].aborted
    /\ ExecuteReturn(engine, flags)

NextWatch ==
    \/ \E c \in LifeCtx, r \in Scripts, tl \in ExplicitLimits : WatchExecute(c, r, tl)
    \/ \E c \in LifeCtx, ms \in DefaultLimits : frames = <<>> /\ SetTimeLimit(c, ms)
    \/ Elapse
    \/ \E i \in 1..MaxDepth : WatchdogTerminate(i)
    \/ \E e \in EngineResults, fl \in Flags : WatchReturn(e, fl)

\* The clock advances, the watchdog thread keeps polling, and a terminated
\* engine reaches a safe point.
SpecWatch ==
    /\ InitExec /\ [][NextWatch]_vars
    /\ WF_vars(Elapse)
    /\ WF_vars(\E i \in 1..MaxDepth : WatchdogTerminate(i))
    /\ WF_vars(\E e \in EngineResults, fl \in Flags : WatchReturn(e, fl))

(***************************************************************************)
(* Properties of the Context lifecycle (checked under SpecLife)            *)
(***************************************************************************)
Done(c, s) == \E i \in DOMAIN ctx[c].flog : ctx[c].flog[i].step = s
\* Step s has run in the teardown of c and found something to release.
Dropped(c, s) == \E i \in DOMAIN ctx[c].flog :
                    ctx[c].flog[i].step = s /\ ctx[c].flog[i].n > 0

CachesEmpty(k) ==
    /\ k.call_impls = 0 /\ k.method_tmpls = 0 /\ k.template_cache = 0
    /\ k.weak_objects = 0 /\ k.weak_closures = 0 /\ k.accessor_list = 0
    /\ k.script_objects = <<>> /\ k.modules_loaded = 0

\* C1: a call of construct on a Context whose script scope exists changes
\* nothing: not the engine instance, the script scope, the exported-object
\* name, the accessor list, the handle caches, the in-execution flag or the
\* limits, nor any script resource, engine or registry entry, whatever the
\* arguments of the call.
C1_ConstructTwiceNoOp ==
    [][\A c \in Ctx :
         (last'.op = "construct" /\ last'.c = c /\ ctx[c].context)
         => /\ [ctx'[c] EXCEPT !.ctor_called = ctx[c].ctor_called] = ctx[c]
            /\ UNCHANGED <<script, engines, timer_stack, timer_thread, frames>>]_vars

\* A second construct call was made on a Context that holds an engine
\* instance, accessors, compiled scripts and a nonzero time limit.
C1_Witness ==
    /\ last.op = "construct" /\ last.noop
    /\ LET k == ctx[last.c] IN
         /\ k.context /\ k.isolate # 0 /\ k.accessor_list > 0
         /\ k.time_limit > 0 /\ k.script_objects # <<>>

\* C3: once teardown has disposed the engine instance, the exported object
\* is detached, the script scope is gone, every accessor context, handle
\* cache entry, weak reference and module-cache entry is released and every
\* script resource compiled on the Context has lost its script handle; so
\* nothing of the Context is released after the engine instance.
C3_EngineDisposedLast ==
    \A c \in Ctx :
        ctx[c].disposals > 0
        => /\ ~ctx[c].exported /\ ~ctx[c].context /\ ctx[c].object_name = ""
           /\ ~ctx[c].global_template
           /\ CachesEmpty(ctx[c])
           /\ \A r \in Scripts : script[r].origin = c => ~script[r].handle
           /\ \A s \in {"detach", "call_impls", "method_tmpls", "template_cache",
                          "accessor_list", "context", "weak_objects",
                          "weak_closures", "script_objects", "modules_loaded"} :
                  Done(c, s)

\* Teardown has disposed the engine instance of a Context after detaching the
\* exported object and releasing accessors, caches, weak references, scripts
\* and modules that were really there.
C3_Witness ==
    \E c \in Ctx :
        /\ ctx[c].disposals = 1
        /\ \A s \in {"detach", "accessor_list", "method_tmpls", "call_impls",
                       "template_cache", "context", "weak_objects", "weak_closures",
                       "script_objects", "modules_loaded"} : Dropped(c, s)

Before(c, a, b) == Done(c, b) => Done(c, a)

\* In the teardown of c, what step a has to release is released before step
\* b releases anything.
ReleasedBefore(c, a, b) ==
    Dropped(c, b) => (Done(c, a) \/ Held(ctx[c], a) = 0)

\* C5 as stated: the release steps run in the order weak references, script
\* resources, module cache, script scope, engine instance, snapshot blob; in
\* particular, once the script scope has been disposed the weak references,
\* the script resources and the module cache have been released.
C5_StatedOrder ==
    \A c \in Ctx :
        /\ ReleasedBefore(c, "weak_objects", "script_objects")
        /\ ReleasedBefore(c, "weak_closures", "script_objects")
        /\ ReleasedBefore(c, "script_objects", "modules_loaded")
        /\ ReleasedBefore(c, "modules_loaded", "context")
        /\ ReleasedBefore(c, "context", "isolate")
        /\ ReleasedBefore(c, "isolate", "snapshot_blob")
        /\ Dropped(c, "context")
           => /\ ctx[c].weak_objects = 0 /\ ctx[c].weak_closures = 0
              /\ ctx[c].script_objects = <<>> /\ ctx[c].modules_loaded = 0

\* C5 amended: the release steps run in the order script scope, weak
\* references, script resources, module cache, engine instance, snapshot
\* blob; the script scope is disposed before the weak references, the script
\* resources and the module cache are released, the engine instance after them.
C5_CodeOrder ==
    \A c \in Ctx :
        /\ Before(c, "context", "weak_objects")
        /\ Before(c, "weak_objects", "weak_closures")
        /\ Before(c, "weak_closures", "script_objects")
        /\ Before(c, "script_objects", "modules_loaded")
        /\ Before(c, "modules_loaded", "isolate")
        /\ Before(c, "isolate", "snapshot_blob")
        /\ (Dropped(c, "weak_objects") \/ Dropped(c, "weak_closures")
            \/ Dropped(c, "script_objects") \/ Dropped(c, "modules_loaded"))
           => ~ctx[c].context
        /\ ctx[c].disposals > 0
           => /\ ctx[c].weak_objects = 0 /\ ctx[c].weak_closures = 0
              /\ ctx[c].script_objects = <<>> /\ ctx[c].modules_loaded = 0

\* A teardown has run to its end on a Context with a script scope, weak
\* references, script resources, loaded modules, an engine and a snapshot blob.
C5_Witness ==
    \E c \in Ctx :
        /\ Freed(c)
        /\ \A s \in {"context", "weak_objects", "weak_closures", "script_objects",
                       "modules_loaded", "isolate", "snapshot_blob"} : Dropped(c, s)

(***************************************************************************)
(* Properties of the execution protocol (checked under SpecExec)           *)
(***************************************************************************)
EntriesOf(c) == {i \in DOMAIN timer_stack : timer_stack[i].ctx = c}

\* C2: a call of executeScript with a live script resource whose owner is not
\* the calling Context returns false, starts no execution, and changes nothing
\* of any Context (limits, in-execution flag, resource lists), of any script
\* resource or of the watchdog registry.
C2_ForeignScriptRejected ==
    [][\A c \in Ctx, r \in Scripts :
         ( /\ last'.op = "executeScript" /\ last'.c = c /\ last'.res = r
           /\ last'.result # "invalid"
           /\ script[r].state = "live" /\ script[r].ctx # c )
         => /\ last'.result = "false"
            /\ UNCHANGED <<ctx, script, engines, timer_stack, timer_thread,
                           fatal_error_abort, frames>>]_vars

\* A script owned by a Context that is executing under a limit was passed to
\* the other Context, which has limits of its own, and was rejected.
C2_Witness ==
    /\ last.op = "executeScript" /\ last.result = "false"
    /\ LET owner == script[last.res].ctx IN
         /\ owner \in Ctx \ {last.c}
         /\ ctx[owner].in_execution > 0 /\ EntriesOf(owner) # {}
         /\ ctx[last.c].time_limit > 0 /\ ctx[last.c].memory_limit > 0

\* C6: when the engine call of an execution returns and the fatal-abort marker
\* is set, the execution ends in a bailout, never in a value or a translated
\* exception, whatever the flags and whatever the engine call came back with.
C6_FatalAbortWins ==
    (last.op = "executeReturn" /\ last.marker) => last.outcome = "bailout"

\* An execution called with PROPAGATE_PHP_EXCEPTIONS whose script threw came
\* back with the marker set, and bailed out.
C6_Witness ==
    /\ last.op = "executeReturn" /\ last.marker
    /\ last.flags = "PROPAGATE_PHP_EXCEPTIONS" /\ last.engine = "exception"
    /\ last.outcome = "bailout"

\* C7: an execution that starts while its Context is not executing runs under
\* the passed time (memory) limit, or under the Context's default when none
\* was passed, and registers that ceiling; one that starts while its Context
\* is executing is handed the passed limits as they are, never the defaults,
\* and leaves the registry as it is.
C7_DefaultsOnlyAtTopLevel ==
    [][\A c \in Ctx :
         ( /\ last'.op \in {"executeScript", "executeString"}
           /\ last'.c = c /\ last'.result = "running"
           /\ Len(frames') = Len(frames) + 1 )
         => LET k == ctx[c]
                top_tl == IF last'.tl = 0 THEN k.time_limit ELSE last'.tl
                top_ml == IF last'.ml = 0 THEN k.memory_limit ELSE last'.ml
            IN  IF k.in_execution = 0
                THEN /\ last'.eff_tl = top_tl /\ last'.eff_ml = top_ml
                     /\ timer_stack' =
                           IF top_tl > 0 \/ top_ml > 0
                           THEN <<TimerEntry(c, top_tl, top_ml, now)>> \o timer_stack
                           ELSE timer_stack
                ELSE /\ last'.eff_tl = last'.tl /\ last'.eff_ml = last'.ml
                     /\ timer_stack' = timer_stack]_vars

\* A Context with default limits, executing under them, started a nested
\* execution without explicit limits.
C7_Witness ==
    /\ last.op = "executeScript" /\ last.result = "running"
    /\ Len(frames) = 2 /\ frames[1].c = last.c /\ frames[2].c = last.c
    /\ frames[1].pushed
    /\ ctx[last.c].time_limit > 0 /\ ctx[last.c].memory_limit > 0
    /\ last.tl = 0 /\ last.ml = 0 /\ last.eff_tl = 0 /\ last.eff_ml = 0
    /\ \E i \in EntriesOf(last.c) :
          /\ timer_stack[i].time_limit = ctx[last.c].time_limit
          /\ timer_stack[i].memory_limit = ctx[last.c].memory_limit

\* C8: the watchdog registry never holds two entries of one Context.
C8_OneEntryPerContext ==
    \A c \in Ctx : Cardinality(EntriesOf(c)) <= 1

\* A Context executing under a limit started a nested execution with explicit
\* limits, and the registry holds one entry for it; the other Context has an
\* entry too.
C8_Witness ==
    /\ last.op = "executeScript" /\ last.result = "running"
    /\ \E i \in 1..(Len(frames) - 1) : frames[i].c = last.c /\ frames[i].pushed
    /\ last.tl > 0 /\ last.ml > 0
    /\ Cardinality(EntriesOf(last.c)) = 1

(***************************************************************************)
(* Properties of the limit setters                                         *)
(***************************************************************************)
\* C9: setTimeLimit(ms) on a Context sets that Context's default time limit
\* to ms and, in every entry of the Context that is live (not marked killed),
\* the time limit to ms and the deadline to the time of the call plus ms;
\* setMemoryLimit(bytes >= 0) sets the default memory limit and the live
\* entry's memory limit to bytes; nothing else of that Context, nothing of
\* another Context and no entry of another Context changes.
C9_SettersUpdateDefaultAndLiveEntry ==
    [][\A c \in Ctx :
         /\ (last'.op = "setTimeLimit" /\ last'.c = c)
            => /\ ctx' = [ctx EXCEPT ![c].time_limit = last'.arg]
               /\ DOMAIN timer_stack' = DOMAIN timer_stack
               /\ \A i \in DOMAIN timer_stack :
                     LET e == timer_stack[i] IN
                     /\ (e.ctx = c /\ ~e.killed) =>
                           timer_stack'[i] =
                             [e EXCEPT !.time_limit = last'.arg,
                                       !.time_point = now + last'.arg]
                     /\ e.ctx # c => timer_stack'[i] = e
         /\ (last'.op = "setMemoryLimit" /\ last'.c = c /\ last'.arg >= 0)
            => /\ ctx' = [ctx EXCEPT ![c].memory_limit = last'.arg]
               /\ DOMAIN timer_stack' = DOMAIN timer_stack
               /\ \A i \in DOMAIN timer_stack :
                     LET e == timer_stack[i] IN
                     /\ (e.ctx = c /\ ~e.killed) =>
                           timer_stack'[i] = [e EXCEPT !.memory_limit = last'.arg]
                     /\ e.ctx # c => timer_stack'[i] = e]_vars

\* After time has passed, setTimeLimit was called with a nonzero limit on a
\* Context that is executing under another limit while the other Context is
\* executing under a limit too: the entry carries the new limit and deadline.
C9_Witness ==
    /\ last.op = "setTimeLimit" /\ last.arg > 0 /\ last.at > 0
    /\ \E i \in EntriesOf(last.c) :
          /\ ~timer_stack[i].killed
          /\ timer_stack[i].time_limit = last.arg
          /\ timer_stack[i].time_point = last.at + last.arg
          /\ timer_stack[i].memory_limit > 0
    /\ \E c \in Ctx \ {last.c} :
          /\ EntriesOf(c) # {}
          /\ ctx[c].time_limit # last.arg

\* C10: setTimeLimit and setMemoryLimit read and write registry entries only
\* while the host thread holds the registry mutex, the watchdog marks entries
\* only while it holds the mutex, and whenever a setter returns, by its last
\* statement or by the rejection of a negative memory limit, the host thread
\* does not hold the mutex.
C10_RegistryUnderMutex ==
    [][/\ (last'.op = "setLimitStep" /\ last'.step = "loop")
          => (mutex = "host" /\ mutex' = "host")
       /\ (last'.op = "setLimitStep" /\ timer_stack' # timer_stack)
          => last'.step = "loop"
       /\ last'.op = "watchdogKill" => mutex = "watchdog"
       /\ (last'.op = "setLimitStep" /\ pc' = <<>>) => mutex' # "host"]_vars

\* A setter has rewritten a live entry under the mutex while the watchdog
\* thread was running, and has returned with the mutex free.
C10_Witness ==
    /\ last.op = "setLimitStep" /\ last.step = "thread" /\ pc = <<>>
    /\ mutex = "free" /\ timer_thread > 0
    /\ \E i \in EntriesOf(last.c) :
          /\ ~timer_stack[i].killed
          /\ timer_stack[i].time_limit = ctx[last.c].time_limit
          /\ timer_stack[i].memory_limit = ctx[last.c].memory_limit
          /\ timer_stack[i].memory_limit > 0
    /\ \E j \in DOMAIN timer_stack : timer_stack[j].killed

(***************************************************************************)
(* Properties of the watchdog thread                                       *)
(***************************************************************************)
\* C11: at most one watchdog thread is ever started, whatever the interleaving
\* of setTimeLimit, setMemoryLimit and execute calls of the host threads.
C11_SingleWatchdog == timer_thread <= 1

\* C12: a call of setTimeLimit or setMemoryLimit starts the watchdog thread
\* exactly when its limit is nonzero (and accepted), an execution of the
\* Context is in progress and no watchdog thread has been started; in every
\* other case the call starts no thread.
C12_ThreadStartedOnDemand ==
    [][\A c \in Ctx :
         (last'.op \in SetLimitMethods /\ last'.c = c)
         => LET accepted == last'.op = "setTimeLimit" \/ last'.arg >= 0
                starts == /\ accepted /\ last'.arg # 0
                          /\ ctx[c].in_execution # 0
                          /\ timer_thread = 0
            IN  timer_thread' = IF starts THEN 1 ELSE timer_thread]_vars

\* A limit was set on a Context that started executing without any limit:
\* this call started the watchdog thread.
C12_Witness ==
    /\ last.op \in SetLimitMethods /\ last.started
    /\ last.arg > 0 /\ timer_thread = 1
    /\ ctx[last.c].in_execution > 0
    /\ timer_stack = <<>>

OversizeFailPoints == {"snapshot", "classname", "objname", "propname", "methname"}
OversizeOutcomes == {"identifier_too_long", "source_too_long"}

\* C14: a call of __construct rejected for an oversized snapshot blob, class
\* name, exported-object name, property name or method name, and a call of
\* compileString rejected for an oversized source or identifier, creates no
\* engine instance, does not take the engine lock or enter the script scope,
\* and leaves the Context and the script resources as they were.
C14_OversizeRejectedWithoutEffect ==
    [][\A c \in LifeCtx :
         /\ (/\ last'.op = "construct" /\ last'.c = c
             /\ ~last'.noop /\ last'.fail \in OversizeFailPoints)
            => /\ engines' = engines
               /\ ctx'[c] = [ctx[c] EXCEPT !.ctor_called = TRUE]
         /\ (/\ last'.op = "compileString" /\ last'.c = c
             /\ last'.outcome \in OversizeOutcomes)
            => /\ ~last'.entered
               /\ ctx'[c] = ctx[c] /\ script' = script]_vars

\* C15: setMemoryLimit with a negative value, and executeScript and
\* executeString with a negative memory limit, are rejected as invalid and
\* change nothing: the default limits, the in-execution flag, the script
\* resources, the registry, the executions in progress and the number of
\* watchdog threads are what they were, so nothing was compiled or run.
C15_NegativeLimitChangesNothing ==
    [][\A c \in Ctx, ml \in NegativeLimits :
         /\ SetMemoryLimit(c, ml)
            => UNCHANGED <<ctx, script, engines, timer_stack, timer_thread,
                           frames, fatal_error_abort>>
         /\ \A r \in Scripts, tl \in DefaultLimits :
               ExecuteScript(c, r, tl, ml)
               => /\ last'.result = "invalid"
                  /\ UNCHANGED <<ctx, script, engines, timer_stack, timer_thread,
                                 frames, fatal_error_abort>>
         /\ \A o \in CompileOutcomes, tl \in DefaultLimits :
               ExecuteString(c, o, tl, ml)
               => /\ last'.result = "invalid"
                  /\ UNCHANGED <<ctx, script, engines, timer_stack, timer_thread,
                                 frames, fatal_error_abort>>]_vars

\* executeString was called with a negative memory limit from inside an
\* execution of a Context that has a default memory limit and a live entry
\* in the registry: the call was rejected.
C15_Witness ==
    /\ last.op = "executeString" /\ last.result = "invalid"
    /\ frames # <<>> /\ ctx[last.c].in_execution > 0
    /\ ctx[last.c].memory_limit > 0
    /\ \E i \in EntriesOf(last.c) :
          ~timer_stack[i].killed /\ timer_stack[i].memory_limit > 0

(***************************************************************************)
(* Properties of script resources                                          *)
(***************************************************************************)
\* The script resources compiled on c that the host still holds.
LiveScriptsOf(c) == {r \in Scripts : script[r].state = "live" /\ script[r].origin = c}

\* C16: once the teardown of a Context has released its script list, every
\* live script resource compiled on it has no owner and no compiled script;
\* executing such a resource on any Context returns false and starts no
\* execution; destroying it leaves the list of every Context as it was.
C16_OrphanedScriptsFailCleanly ==
    /\ [](\A c \in Ctx : \A r \in LiveScriptsOf(c) :
            Done(c, "script_objects")
            => script[r].ctx = NULL /\ ~script[r].handle)
    /\ [][\A c \in Ctx : \A r \in LiveScriptsOf(c) :
            Done(c, "script_objects")
            => /\ (last'.op = "executeScript" /\ last'.res = r)
                  => /\ last'.result = "false"
                     /\ UNCHANGED <<ctx, script, engines, timer_stack,
                                    timer_thread, frames>>
               /\ (last'.op = "scriptDtor" /\ last'.res = r)
                  => /\ script'[r].state = "freed"
                     /\ UNCHANGED <<ctx, engines>>]_vars

\* A Context was torn down while two script resources compiled on it were
\* live; one of them has since been destroyed, the other has been passed to
\* the remaining Context, which rejected it.
C16_Witness ==
    /\ last.op = "executeScript" /\ last.result = "false"
    /\ \E c \in Ctx \ {last.c} :
          /\ Freed(c) /\ Dropped(c, "script_objects")
          /\ script[last.res].origin = c /\ script[last.res].state = "live"
          /\ \E q \in Scripts \ {last.res} :
                script[q].origin = c /\ script[q].state = "freed"
    /\ Untouched(last.c)

\* The list without every occurrence of r.
Without(list, r) == SelectSeq(list, LAMBDA x : x # r)

\* C17: of two live script resources owned by one Context, destroying one
\* removes its entry and no other from the Context's list and leaves the
\* other resource as it was: live, owned by the Context, holding its compiled
\* script and in the list; executing one, and the return of that execution,
\* change neither resource nor the list.
C17_ScriptsIndependent ==
    [][\A r \in Scripts, q \in Scripts :
         ( /\ q # r
           /\ script[r].state = "live" /\ script[q].state = "live"
           /\ script[r].ctx # NULL /\ script[q].ctx = script[r].ctx )
         => LET c == script[r].ctx IN
            /\ (last'.op = "scriptDtor" /\ last'.res = r)
               => /\ script'[q] = script[q] /\ script[q].handle
                  /\ ctx'[c].script_objects = Without(ctx[c].script_objects, r)
                  /\ InList(q, ctx'[c].script_objects)
                  /\ Len(ctx'[c].script_objects) = Len(ctx[c].script_objects) - 1
            /\ (last'.op = "executeScript" /\ last'.res = r)
               => /\ script' = script
                  /\ ctx'[c].script_objects = ctx[c].script_objects
            /\ last'.op = "executeReturn"
               => /\ script' = script
                  /\ ctx'[c].script_objects = ctx[c].script_objects]_vars

\* Two scripts were compiled on one Context and the second was executed and
\* then destroyed: the first is the only entry of the Context's list.
C17_Witness ==
    /\ last.op = "scriptDtor"
    /\ script[last.res].state = "freed"
    /\ \E q \in Scripts \ {last.res} :
          /\ q < last.res
          /\ script[q].state = "live" /\ script[q].handle
          /\ script[q].ctx = script[last.res].origin
          /\ ctx[script[q].ctx].script_objects = <<q>>
          /\ Untouched(script[q].ctx)

(***************************************************************************)
(* Properties of the engine lock                                           *)
(***************************************************************************)
\* Thread t holds the engine lock of Context c: it is inside an execution on
\* c, at the engine call or in a callback made from it.
HoldsEngineLock(t, c) == threads[t].running = c

\* C18: the fields of a Context are read and written only by a thread that
\* holds the Context's engine lock: a setter stores the default limit, and
\* reads the in-execution flag to decide on the watchdog thread, only while
\* its thread holds the lock, so never while another thread executes on the
\* Context and never with the lock free.
C18_ContextStateUnderEngineLock ==
    [][\A t \in Threads :
         /\ (threads[t].at = "store" /\ threads'[t].at = "loop")
            => HoldsEngineLock(t, threads[t].c)
         /\ (threads[t].at = "check" /\ threads'[t].at = "start")
            => HoldsEngineLock(t, threads[t].c)]_vars

(***************************************************************************)
(* Properties of createSnapshot                                            *)
(***************************************************************************)
\* C19: createSnapshot returns false when the seed source is empty, does not
\* compile or throws when run, and when the engine serializes no blob; in
\* every other case it returns a string that holds every byte of a blob
\* serialized after the whole seed script has run.
C19_SnapshotCompleteOrAbsent ==
    last.op = "createSnapshot"
    => LET seed == last.seed
           failed == \/ seed.len = 0 \/ ~seed.compiles \/ seed.throws
                     \/ seed.blob_size = 0
       IN  IF failed
           THEN last.result = [value |-> "false"]
           ELSE /\ last.result.value = "string"
                /\ last.result.len = seed.blob_size
                /\ last.result.seeded

\* createSnapshot was called with a seed that compiles and throws when run,
\* on an engine that would have serialized a blob, and returned false.
C19_Witness ==
    /\ last.op = "createSnapshot"
    /\ last.seed.len > 0 /\ last.seed.compiles /\ last.seed.throws
    /\ last.seed.blob_size > 0
    /\ last.result.value = "false"

(***************************************************************************)
(* Properties of serialization                                             *)
(***************************************************************************)
\* C20: every call of __sleep or __wakeup, on a Context in any state, signals
\* the unsupported-operation error and changes no field of the Context, no
\* engine instance and no script resource; the teardown of a Context that
\* went through such a call and was never constructed disposes no engine
\* instance.
C20_NotSerializable ==
    /\ [][\A c \in Ctx :
            (last'.op \in SerializeMethods /\ last'.c = c)
            => /\ last'.result = "unsupported"
               /\ ctx'[c] = [ctx[c] EXCEPT !.serialize_called = TRUE]
               /\ UNCHANGED <<script, engines, timer_stack, timer_thread>>]_vars
    /\ [](\A c \in Ctx :
            (ctx[c].serialize_called /\ ~ctx[c].ctor_called)
            => /\ ctx[c].disposals = 0 /\ ctx[c].isolate = 0
               /\ \A e \in DOMAIN engines : engines[e] = 0)

\* A Context that was allocated and woken up, had a limit set and was never
\* constructed has been torn down, and no engine instance was disposed.
C20_Witness ==
    /\ \E c \in Ctx :
          /\ Freed(c)
          /\ ctx[c].serialize_called /\ ~ctx[c].ctor_called
          /\ ctx[c].time_limit > 0
          /\ ctx[c].disposals = 0
    /\ last.op = "free" /\ last.step = "snapshot_blob"

(***************************************************************************)
(* Properties of the exported methods                                      *)
(***************************************************************************)
\* The method overrides, or is, a method of V8Js: method names are the same
\* when they are equal up to case.
NamedLikeV8JsMethod(m) ==
    \E b \in V8JsMethods \cap DOMAIN Lower : Lower[b] = Lower[m.name]

\* C21: the methods published to the guest are exactly the methods of the
\* class that are public, are neither constructor nor destructor, are not
\* magic methods (up to case) and are not named like a method of V8Js, even
\* when a subclass overrides it; each is wrapped once and has one entry in
\* the method handle cache.
C21_PublishedMethods ==
    last.op = "exportMethods"
    => LET expected == { m \in last.table :
                           /\ m.public /\ ~m.ctor_dtor
                           /\ Lower[m.name] \notin MagicNames
                           /\ ~NamedLikeV8JsMethod(m) }
       IN  /\ last.exported.published = {m.name : m \in expected}
           /\ last.exported.wrapped = Cardinality(expected)
           /\ Cardinality(last.exported.method_tmpls) = Cardinality(expected)

(***************************************************************************)
(* Properties of executeString                                             *)
(***************************************************************************)
\* C22: when an execution started by executeString ends, by a value, by a
\* translated guest exception or by a bailout, the temporary compiled script
\* has been freed exactly once; when it ends by a bailout the bailout goes
\* on to the caller; and neither the call nor its end changes the list of
\* script resources of any Context or any script resource.
C22_TemporaryScriptFreedOnce ==
    [][/\ (last'.op = "executeReturn" /\ last'.temp)
          => /\ last'.frees = 1
             /\ last'.bailout = (last'.outcome = "bailout")
             /\ (last'.outcome = "bailout" /\ Len(frames) > 1)
                => frames'[Len(frames')].aborted
             /\ script' = script
             /\ \A c \in Ctx : ctx'[c].script_objects = ctx[c].script_objects
       /\ last'.op = "executeString"
          => /\ script' = script
             /\ \A c \in Ctx : ctx'[c].script_objects = ctx[c].script_objects]_vars

\* An executeString nested in another execution was terminated by the
\* watchdog and ended in a bailout, which went on to the enclosing execution.
C22_Witness ==
    /\ last.op = "executeReturn" /\ last.temp
    /\ last.outcome = "bailout" /\ last.frees = 1
    /\ frames # <<>> /\ frames[Len(frames)].aborted

(***************************************************************************)
(* Properties of the script-resource lists                                 *)
(***************************************************************************)
\* How often resource r occurs in the list.
Occurrences(list, r) == Cardinality({i \in DOMAIN list : list[i] = r})

\* C23: in every state, a live script resource that has an owner occurs
\* exactly once in the owner's list of script resources, one that has no
\* owner occurs in no list, and every element of a Context's list is a live
\* resource owned by that Context; so the destructor of a resource with an
\* owner finds exactly one entry to erase.
C23_OwnerIffListed ==
    /\ \A r \in Scripts :
          script[r].state = "live"
          => IF script[r].ctx # NULL
             THEN /\ Occurrences(ctx[script[r].ctx].script_objects, r) = 1
                  /\ \A c \in Ctx \ {script[r].ctx} :
                        Occurrences(ctx[c].script_objects, r) = 0
             ELSE \A c \in Ctx : Occurrences(ctx[c].script_objects, r) = 0
    /\ \A c \in Ctx : \A i \in DOMAIN ctx[c].script_objects :
          LET q == ctx[c].script_objects[i] IN
          script[q].state = "live" /\ script[q].ctx = c

\* Of two resources compiled on one Context the first was destroyed, the
\* second is the only entry of the list; on the other Context, torn down
\* since, nothing is left to refer to.
C23_Witness ==
    /\ \E c \in Ctx, r \in Scripts, q \in Scripts :
          /\ r < q
          /\ script[r].state = "freed" /\ script[r].origin = c
          /\ script[q].state = "live" /\ script[q].ctx = c
          /\ ctx[c].script_objects = <<q>>
          /\ ctx[c].in_execution > 0
    /\ \E d \in Ctx : Freed(d)

(***************************************************************************)
(* Properties of killed registry entries                                   *)
(***************************************************************************)
\* C24: a call of setTimeLimit or setMemoryLimit leaves every killed entry of
\* the registry as it is (time limit, memory limit, deadline, killed mark),
\* also an entry of the Context it is called on; when the limit is accepted
\* the call still stores it as the Context's default.
C24_KilledEntriesFrozen ==
    [][\A c \in Ctx :
         (last'.op \in SetLimitMethods /\ last'.c = c)
         => /\ DOMAIN timer_stack' = DOMAIN timer_stack
            /\ \A i \in DOMAIN timer_stack :
                  timer_stack[i].killed => timer_stack'[i] = timer_stack[i]
            /\ last'.op = "setTimeLimit" => ctx'[c].time_limit = last'.arg
            /\ (last'.op = "setMemoryLimit" /\ last'.arg >= 0)
               => ctx'[c].memory_limit = last'.arg]_vars

\* setTimeLimit was called on a Context whose execution the watchdog had
\* killed: the default has the new limit, the killed entry has the old one.
C24_Witness ==
    /\ last.op = "setTimeLimit"
    /\ ctx[last.c].time_limit = last.arg
    /\ ctx[last.c].in_execution > 0
    /\ \E i \in EntriesOf(last.c) :
          /\ timer_stack[i].killed
          /\ timer_stack[i].time_limit # last.arg
          /\ timer_stack[i].time_point # last.at + last.arg

(***************************************************************************)
(* Properties of the exported object                                       *)
(***************************************************************************)
\* C25: in every state in which the script scope of a Context exists and its
\* teardown has not begun, the name of the exported object is set and the
\* exported object is installed on the guest global, also after a call of
\* __construct that stopped part-way.
C25_ScopeImpliesExportedName ==
    \A c \in Ctx :
        (ctx[c].context /\ Untouched(c))
        => (ctx[c].object_name # "" /\ ctx[c].exported)

(***************************************************************************)
(* Properties of host property writes and unsets                           *)
(***************************************************************************)
\* Apart from name n, both sides are as they were.
OthersUnchanged(c, n) ==
    \A x \in PropNames \ {n} :
        /\ ctx'[c].props[x] = ctx[c].props[x]
        /\ ctx'[c].js_props[x] = ctx[c].js_props[x]

\* C26: on a constructed Context, a write to a public or undeclared property
\* leaves the same value on the host object and, read-only, on the exported
\* object; a write to a non-public declared property leaves the exported
\* object as it was and the value on the host object; an unset removes the
\* name from both; a write or unset rejected for an oversized name changes
\* neither; no call touches another name; and so, in every state, each
\* public or undeclared name is absent on both sides or holds the same value
\* on both.
C26_PropertiesMirrored ==
    /\ [](\A c \in LifeCtx, n \in PropNames :
            PropKind[n] \in {"public", "undeclared"}
            => IF ctx[c].props[n].present
               THEN ctx[c].js_props[n] = GuestProperty(ctx[c].props[n].value)
               ELSE ctx[c].js_props[n] = NoProperty)
    /\ [][\A c \in LifeCtx, n \in PropNames :
            (/\ last'.op \in {"writeProperty", "unsetProperty"}
             /\ last'.c = c /\ last'.member = n)
            => IF last'.result = "invalid"
               THEN Oversized(n) /\ ctx' = ctx
               ELSE /\ OthersUnchanged(c, n)
                    /\ (last'.op = "writeProperty"
                        /\ PropKind[n] \in {"public", "undeclared"})
                       => /\ ctx'[c].props[n] = HostProperty(last'.value)
                          /\ ctx'[c].js_props[n] = GuestProperty(last'.value)
                    /\ (last'.op = "writeProperty" /\ PropKind[n] = "nonpublic")
                       => /\ ctx'[c].props[n] = HostProperty(last'.value)
                          /\ ctx'[c].js_props = ctx[c].js_props
                    /\ (last'.op = "writeProperty" /\ PropKind[n] = "wrong")
                       => ctx'[c].js_props = ctx[c].js_props
                    /\ (last'.op = "unsetProperty" /\ PropKind[n] # "wrong")
                       => /\ ctx'[c].props[n] = NoProperty
                          /\ ctx'[c].js_props[n] = NoProperty]_vars

\* An undeclared property was written, written again with another value and
\* a non-public one was written since: both sides hold the last value of the
\* first, the exported object does not hold the second.
C26_Witness ==
    /\ last.op = "writeProperty" /\ last.member = "prot" /\ last.result = "done"
    /\ ctx[last.c].props["prot"] = HostProperty(last.value)
    /\ ctx[last.c].js_props["prot"] = NoProperty
    /\ ctx[last.c].props["dyn"] = HostProperty(MaxValue)
    /\ ctx[last.c].js_props["dyn"] = GuestProperty(MaxValue)
    /\ ctx[last.c].props["pub"] = NoProperty
    /\ ctx[last.c].js_props["pub"] = NoProperty

====
